---- MODULE Spec2Model ----
(***************************************************************************)
(* The per-frame translation layer of egui_overlay: the wgpu painter       *)
(* (EguiPainter::upload_egui_data, set_textures, draw_egui_with_renderpass)*)
(* and the glow painter (Painter::prepare_render, render_egui), with the   *)
(* scissor conversion both use.                                            *)
(*                                                                         *)
(* Floating point: clip rectangles carry integer logical coordinates and   *)
(* the scale is the exact ratio framebuffer width / logical width; the     *)
(* product is rounded half away from zero as f32::round does.  The inputs  *)
(* used keep every product far from a half-integer that f32 could miss.    *)
(***************************************************************************)
EXTENDS Integers, Sequences, FiniteSets, TLC

VARIABLES
    backend,             \* "wgpu" or "glow": the painter the program was built with;
                         \*   "both": the two painters are fed the same frames side by side
    pc,                  \* "ready" | "uploaded" | "drawn" | "aborted"
    panic,               \* "none", or the message of the panic that aborted the process
    frame,               \* the input of the frame in progress (meshes, textures delta, sizes)
    draw_calls,          \* the list returned by upload_egui_data
    gpu_log,             \* device/queue/encoder commands recorded by the upload of this frame
    rpass,               \* render pass commands recorded by the draw of this frame
    vb_len,              \* EguiPainter.vb_len
    ib_len,              \* EguiPainter.ib_len
    vb,                  \* EguiPainter.vb: the buffer object, [size] in bytes
    ib,                  \* EguiPainter.ib
    managed_textures,    \* EguiPainter.managed_textures: key -> EguiTexture
                         \*   [width, height, mip_level_count, sampler]
    user_textures,       \* EguiPainter.user_textures
    delete_textures,     \* EguiPainter.delete_textures
    gl_textures,         \* glow Painter.managed_textures: key -> GpuTexture
    textures_to_delete,  \* glow Painter.textures_to_delete
    clipped_primitives,  \* glow Painter.clipped_primitives
    logical_screen_size, \* glow Painter.logical_screen_size
    screen_size_physical,\* glow Painter.screen_size_physical
    usable,              \* history: Managed keys whole-created and not freed by an earlier frame since
    orphans,             \* history: deltas of this frame that carried a position and found no record
    eval,                \* the call of a free function in progress: its arguments and its result
    surface,             \* SurfaceManager.surface: None or Some([configured])
    surface_view,        \* SurfaceManager.surface_view
    surface_current_image, \* SurfaceManager.surface_current_image
    surface_config,      \* SurfaceManager.surface_config: [format, width, height, alpha_mode, view_formats]
    surface_formats_priority, \* SurfaceManager.surface_formats_priority
    surface_format,      \* EguiPainter.surface_format
    pipeline,            \* EguiPainter.pipeline: [format], the output format it was created with
    command_encoders,    \* WgpuBackend.command_encoders: labels of the encoders not yet submitted
    call,                \* history: the WgpuBackend method that returned last
    gl_objects,          \* OpenGL objects the glow painter created, other than textures, not yet deleted
    framebuffer_size_physical, \* GlfwBackend.framebuffer_size_physical
    window_size_logical, \* GlfwBackend.window_size_logical
    cursor_pos,          \* GlfwBackend.cursor_pos, in logical units
    cursor_inside_bounds,\* GlfwBackend.cursor_inside_bounds
    raw_input,           \* GlfwBackend.raw_input: [events], the egui events not yet taken
    frame_events,        \* GlfwBackend.frame_events: the window events of the last tick
    resized_event_pending, \* GlfwBackend.resized_event_pending
    mouse_passthrough,   \* the window's mouse-passthrough attribute
    loop_pc              \* position of the event loop: "poll" | "ticked" | "input" | "gui" | "render"

vars == <<backend, pc, panic, frame, draw_calls, gpu_log, rpass, vb_len, ib_len, vb, ib,
          managed_textures, user_textures, delete_textures, gl_textures,
          textures_to_delete, clipped_primitives, logical_screen_size,
          screen_size_physical, usable, orphans, eval,
          surface, surface_view, surface_current_image, surface_config,
          surface_formats_priority, surface_format, pipeline, command_encoders, call,
          gl_objects, framebuffer_size_physical, window_size_logical, cursor_pos,
          cursor_inside_bounds, raw_input, frame_events, resized_event_pending,
          mouse_passthrough, loop_pc>>

wgpu_vars == <<vb_len, ib_len, vb, ib, managed_textures, user_textures, delete_textures>>

surface_vars == <<surface, surface_view, surface_current_image, surface_config,
                  surface_formats_priority>>

\* the window backend and the event loop
glfw_vars == <<framebuffer_size_physical, window_size_logical, cursor_pos, cursor_inside_bounds,
               raw_input, frame_events, resized_event_pending, mouse_passthrough, loop_pc>>

\* the state outside the two painters' per-frame translation
outer_vars == <<surface_vars, surface_format, pipeline, command_encoders, call, gl_objects,
                glfw_vars>>

glow_vars == <<gl_textures, textures_to_delete, clipped_primitives, logical_screen_size,
               screen_size_physical>>

-----------------------------------------------------------------------------
(* Bounds of the model. *)

\* number of primitives in one frame of the geometry specification
MaxPrims == 3

\* number of entries in one frame's textures_delta.set
MaxDeltas == 1

-----------------------------------------------------------------------------
(* Program constants. *)

\* array_stride of VERTEX_BUFFER_LAYOUT, the "* 20" of the buffer code
VertexSize == 20

\* size of a u32 index, the "* 4" of the buffer code
IndexSize == 4

I32Max == 2147483647

-----------------------------------------------------------------------------
(* Small helpers. *)

Range(s) == {s[i] : i \in DOMAIN s}

Max(a, b) == IF a >= b THEN a ELSE b

Min(a, b) == IF a <= b THEN a ELSE b

\* all sequences over S of length at most n
RECURSIVE SeqUpTo(_, _)
SeqUpTo(S, n) ==
    IF n = 0 THEN {<<>>}
    ELSE LET shorter == SeqUpTo(S, n - 1)
         IN  shorter \cup {Append(s, x) : s \in {t \in shorter : Len(t) = n - 1}, x \in S}

\* Option: None is <<>>, Some(v) is <<v>>
None == <<>>

Some(v) == <<v>>

IsSome(o) == o # <<>>

Unwrap(o) == o[1]

\* egui::TextureId
Managed(k) == [tag |-> "Managed", key |-> k]

User(k) == [tag |-> "User", key |-> k]

\* BTreeMap / HashMap as a function on the set of present keys
MapRemove(m, k) == [x \in DOMAIN m \ {k} |-> m[x]]

MapInsert(m, k, v) == [x \in DOMAIN m \cup {k} |-> IF x = k THEN v ELSE m[x]]

EmptyMap == [x \in {} |-> 0]

-----------------------------------------------------------------------------
(* scissor_from_clip_rect, crates/egui_render_wgpu/src/lib.rs and the copy  *)
(* in crates/egui_render_glow/src/lib.rs.                                  *)

\* f32::round of the rational n/d (d > 0): nearest integer, halves away from zero
RoundDiv(n, d) ==
    IF n >= 0 THEN (2 * n + d) \div (2 * d)
    ELSE -((2 * (-n) + d) \div (2 * d))

\* "as i32" of a float: saturating
AsI32(v) == IF v > I32Max THEN I32Max ELSE IF v < -I32Max - 1 THEN -I32Max - 1 ELSE v

\* mutant: the upper bound of the clamp is forgotten
Clamp_NoUpper(v, lo, hi) == IF v < lo THEN lo ELSE v

\* i32::clamp
Clamp(v, lo, hi) == IF v < lo THEN lo ELSE IF v > hi THEN hi ELSE v

\* scale * coordinate, rounded, as i32; scale is the ratio scale[1] / scale[2]
ScaleRound(scale, c) == AsI32(RoundDiv(scale[1] * c, scale[2]))

\* mutant: a scissor is kept when either side is non-zero
ScissorNonEmpty_Either(width, height) == width # 0 \/ height # 0

\* wgpu lib.rs 336 and glow lib.rs 557
ScissorNonEmpty(width, height) == width # 0 /\ height # 0

scissor_from_clip_rect(clip_rect, scale, physical_framebuffer_size) ==
    LET fb_w == physical_framebuffer_size[1]
        fb_h == physical_framebuffer_size[2]
        clip_min_x == Clamp(ScaleRound(scale, clip_rect.min[1]), 0, fb_w)
        clip_min_y == Clamp(ScaleRound(scale, clip_rect.min[2]), 0, fb_h)
        clip_max_x == Clamp(ScaleRound(scale, clip_rect.max[1]), clip_min_x, fb_w)
        clip_max_y == Clamp(ScaleRound(scale, clip_rect.max[2]), clip_min_y, fb_h)
        width  == clip_max_x - clip_min_x
        height == clip_max_y - clip_min_y
    IN  IF ScissorNonEmpty(width, height)
        THEN Some(<<clip_min_x, clip_min_y, width, height>>)
        ELSE None

\* glow lib.rs 524-558: the private copy of scissor_from_clip_rect in the glow crate
glow_scissor_from_clip_rect(clip_rect, scale, physical_framebuffer_size) ==
    LET fb_w == physical_framebuffer_size[1]
        fb_h == physical_framebuffer_size[2]
        clip_min_x == Clamp(ScaleRound(scale, clip_rect.min[1]), 0, fb_w)
        clip_min_y == Clamp(ScaleRound(scale, clip_rect.min[2]), 0, fb_h)
        clip_max_x == Clamp(ScaleRound(scale, clip_rect.max[1]), clip_min_x, fb_w)
        clip_max_y == Clamp(ScaleRound(scale, clip_rect.max[2]), clip_min_y, fb_h)
        x == clip_min_x
        y == clip_min_y
        width  == clip_max_x - clip_min_x
        height == clip_max_y - clip_min_y
    IN  IF ScissorNonEmpty(width, height)
        THEN Some(<<x, y, width, height>>)
        ELSE None

\* glow lib.rs 511: a - b on u32.  A negative result stands for the underflow, which
\* panics in a build with overflow checks and wraps around in one without.
U32Sub(a, b) == a - b

\* mutant: y is flipped without the height of the rectangle
scissor_from_clip_rect_opengl_NoHeight(clip_rect, scale, physical_framebuffer_size) ==
    LET s == glow_scissor_from_clip_rect(clip_rect, scale, physical_framebuffer_size)
    IN  IF IsSome(s)
        THEN LET arr == Unwrap(s)
             IN  Some(<<arr[1], U32Sub(physical_framebuffer_size[2], arr[2]),
                        arr[3], arr[4]>>)
        ELSE None

\* glow lib.rs 505-514
scissor_from_clip_rect_opengl(clip_rect, scale, physical_framebuffer_size) ==
    LET s == glow_scissor_from_clip_rect(clip_rect, scale, physical_framebuffer_size)
    IN  IF IsSome(s)
        THEN LET arr == Unwrap(s)
             IN  Some(<<arr[1], U32Sub(physical_framebuffer_size[2], arr[2] + arr[4]),
                        arr[3], arr[4]>>)
        ELSE None

\* let scale = physical_framebuffer_size[0] as f32 / logical_screen_size[0]
ScaleOf(physical_framebuffer_size, logical_size) ==
    <<physical_framebuffer_size[1], logical_size[1]>>

-----------------------------------------------------------------------------
(* Texture lifecycle of the wgpu painter: EguiPainter::set_textures.        *)

PanicFilterAssert == "assertion failed: delta.options.magnification == delta.options.minification"

PanicDowncastPrepare == "failed to downcast egui callback fn"

PanicDowncastPaint == "failed to downcast Callbackfn"

PanicNoManagedTexture == "cannot find managed texture"

PanicUserUnimplemented == "not implemented"

\* floor(log2(n)) as u32; log2(0) is -inf, which the cast saturates to 0
RECURSIVE Log2Floor(_)
Log2Floor(n) == IF n <= 1 THEN 0 ELSE 1 + Log2Floor(n \div 2)

\* mutant: the chain is sized by the width alone
MipLevelCount_Width(tex_id, width, height) ==
    IF tex_id = Managed(0) THEN 1 ELSE Log2Floor(width) + 1

\* painter.rs 413-423: the font texture gets one level, the others a full chain
MipLevelCount(tex_id, width, height) ==
    IF tex_id = Managed(0) THEN 1 ELSE Log2Floor(Max(width, height)) + 1

\* painter.rs 253-276: the three samplers made by EguiPainter::new; an address mode
\* left to Default::default() is ClampToEdge
WgpuSamplers ==
    [linear_sampler  |-> [mag_filter |-> "Linear", min_filter |-> "Linear",
                          address_mode |-> "Repeat"],
     nearest_sampler |-> [mag_filter |-> "Nearest", min_filter |-> "Nearest",
                          address_mode |-> "ClampToEdge"],
     font_sampler    |-> [mag_filter |-> "Linear", min_filter |-> "Linear",
                          address_mode |-> "ClampToEdge"]]

\* glow helpers.rs 158-248: the three samplers made by create_samplers; a wrap mode
\* that is not set stays at the GL default, REPEAT
GlSamplers ==
    [linear_sampler  |-> [mag_filter |-> "Linear", min_filter |-> "Linear",
                          address_mode |-> "Repeat"],
     nearest_sampler |-> [mag_filter |-> "Nearest", min_filter |-> "Nearest",
                          address_mode |-> "Repeat"],
     font_sampler    |-> [mag_filter |-> "Linear", min_filter |-> "Linear",
                          address_mode |-> "ClampToEdge"]]

\* mutant: the font texture gets the sampler its delta asks for
SamplerFor_ByFilter(tex_id, delta) ==
    IF delta.magnification = "Nearest" THEN "nearest_sampler" ELSE "linear_sampler"

\* painter.rs 509-516: the sampler bound in the texture's bind group
SamplerFor(tex_id, delta) ==
    IF tex_id = Managed(0) THEN "font_sampler"
    ELSE IF delta.magnification = "Nearest" THEN "nearest_sampler"
    ELSE "linear_sampler"

\* painter.rs 432-435 and 536-539: the map a texture id lives in
TexLookup(self, tex_id) ==
    LET m == IF tex_id.tag = "Managed" THEN self.managed ELSE self.user
    IN  IF tex_id.key \in DOMAIN m THEN Some(m[tex_id.key]) ELSE None

\* painter.rs 525-532
TexInsert(self, tex_id, tex) ==
    IF tex_id.tag = "Managed"
    THEN [self EXCEPT !.managed = MapInsert(@, tex_id.key, tex)]
    ELSE [self EXCEPT !.user = MapInsert(@, tex_id.key, tex)]

\* mutant: the patch is written at the texture's origin
PatchOrigin_Zero(delta) == <<0, 0>>

\* painter.rs 442-446: origin of a sub-region write
PatchOrigin(delta) == Unwrap(delta.pos)

\* painter.rs 403-410, 456: extent of a write is the delta's own image size
PatchExtent(delta) == <<delta.width, delta.height>>

\* painter.rs 437-458: the sub-region write against a live texture
UpdateLive(self, i, delta, tex) ==
    [self EXCEPT !.log = Append(@, [op |-> "write_texture", i |-> i, texture |-> delta.id,
                                    origin |-> PatchOrigin(delta),
                                    extent |-> PatchExtent(delta)])]

\* mutant: a patch without a record panics
UpdateMissing_Panics(self, i, delta) ==
    [self EXCEPT !.orphans = Append(@, i), !.panic = "no live texture to update"]

\* mutant: a patch without a record allocates a texture of the patch's size
UpdateMissing_Creates(self, i, delta) ==
    LET noted == [self EXCEPT !.orphans = Append(@, i),
                              !.log = Append(@, [op |-> "create_texture", i |-> i,
                                                 texture |-> delta.id,
                                                 extent |-> <<delta.width, delta.height>>,
                                                 mip_level_count |-> 1])]
        tex == [width |-> delta.width, height |-> delta.height, mip_level_count |-> 1,
                sampler |-> "linear_sampler"]
    IN  IF delta.id.tag = "Managed"
        THEN [noted EXCEPT !.managed = MapInsert(@, delta.id.key, tex)]
        ELSE [noted EXCEPT !.user = MapInsert(@, delta.id.key, tex)]

\* painter.rs 437, the None arm of "if let Some(tex) = tex": nothing is done
UpdateMissing(self, i, delta) ==
    [self EXCEPT !.orphans = Append(@, i)]

\* mutant: the record is put into the map before the filters are compared
CreateWhole_InsertsFirst(self, i, delta, mip_level_count) ==
    LET inserted == TexInsert(self, delta.id,
                              [width |-> delta.width,
                               height |-> delta.height,
                               mip_level_count |-> mip_level_count,
                               sampler |-> SamplerFor(delta.id, delta)])
    IN  IF delta.magnification # delta.minification
        THEN [inserted EXCEPT !.panic = PanicFilterAssert]
        ELSE inserted

\* painter.rs 460-532: whole-image create
CreateWhole(self, i, delta, mip_level_count) ==
    LET created == [self EXCEPT !.log = @ \o
                      <<[op |-> "create_texture", i |-> i, texture |-> delta.id,
                         extent |-> <<delta.width, delta.height>>,
                         mip_level_count |-> mip_level_count],
                        [op |-> "write_texture", i |-> i, texture |-> delta.id,
                         origin |-> <<0, 0>>,
                         extent |-> <<delta.width, delta.height>>]>>]
    IN  IF delta.magnification # delta.minification
        THEN [created EXCEPT !.panic = PanicFilterAssert]
        ELSE TexInsert(created, delta.id,
                       [width |-> delta.width,
                        height |-> delta.height,
                        mip_level_count |-> mip_level_count,
                        sampler |-> SamplerFor(delta.id, delta)])

\* painter.rs 402-534: one iteration of the loop over textures_delta_set
ApplyDelta(self, i, delta) ==
    LET mip_level_count == MipLevelCount(delta.id, delta.width, delta.height)
        noted == IF delta.id = Managed(0) THEN self
                 ELSE [self EXCEPT !.mips = Append(@, <<delta.id, mip_level_count>>)]
    IN  IF IsSome(delta.pos)
        THEN LET tex == TexLookup(noted, delta.id)
             IN  IF IsSome(tex) THEN UpdateLive(noted, i, delta, Unwrap(tex))
                 ELSE UpdateMissing(noted, i, delta)
        ELSE CreateWhole(noted, i, delta, mip_level_count)

RECURSIVE ApplyDeltasFrom(_, _, _)
ApplyDeltasFrom(self, set, i) ==
    IF i > Len(set) \/ self.panic # "none" THEN self
    ELSE ApplyDeltasFrom(ApplyDelta(self, i, set[i]), set, i + 1)

\* mutant: the passes of one texture run from the smallest level down to level 1
RECURSIVE MipPasses_Descending(_, _, _)
MipPasses_Descending(texture, target_mip, mipmap_level_count) ==
    IF target_mip >= mipmap_level_count THEN <<>>
    ELSE MipPasses_Descending(texture, target_mip + 1, mipmap_level_count)
         \o <<[op |-> "mip_pass", texture |-> texture, target |-> target_mip,
               source |-> target_mip - 1]>>

\* painter.rs 556-590: the blit passes of one texture, target levels 1 .. count-1
RECURSIVE MipPasses(_, _, _)
MipPasses(texture, target_mip, mipmap_level_count) ==
    IF target_mip >= mipmap_level_count THEN <<>>
    ELSE <<[op |-> "mip_pass", texture |-> texture, target |-> target_mip,
            source |-> target_mip - 1]>>
         \o MipPasses(texture, target_mip + 1, mipmap_level_count)

\* painter.rs 535-592: the loop over textures_needing_mipmap_generation
RECURSIVE GenerateMipmapsFrom(_, _)
GenerateMipmapsFrom(self, j) ==
    IF j > Len(self.mips) \/ self.panic # "none" THEN self
    ELSE LET tex == TexLookup(self, self.mips[j][1])
             next == IF IsSome(tex)
                     THEN [self EXCEPT !.log = @ \o MipPasses(self.mips[j][1], 1,
                                                              self.mips[j][2])]
                     ELSE self
         IN  GenerateMipmapsFrom(next, j + 1)

\* EguiPainter::set_textures
set_textures(self, textures_delta_set) ==
    GenerateMipmapsFrom(ApplyDeltasFrom(self, textures_delta_set, 1), 1)

\* mutant: the textures freed by this frame are removed at once
TexturesToRemoveNow_Eager(stored, free) == free

\* mutant: the stored list is forgotten, nothing is ever removed
TexturesToRemoveNow_Never(stored, free) == <<>>

\* painter.rs 612: mem::replace hands back the list stored by the previous frame
TexturesToRemoveNow(stored, free) == stored

\* mutant: this frame's free list is added to the stored one
TexturesToRemoveNext_Accumulates(stored, free) == stored \o free

\* painter.rs 612: ... and stores this frame's free list
TexturesToRemoveNext(stored, free) == free

\* mutant: the ids freed by the frame before keep their records
RemoveTextures_None(m, tids, tag) == m

\* painter.rs 614-623
RECURSIVE RemoveTextures(_, _, _)
RemoveTextures(m, tids, tag) ==
    IF tids = <<>> THEN m
    ELSE RemoveTextures(IF Head(tids).tag = tag THEN MapRemove(m, Head(tids).key) ELSE m,
                        Tail(tids), tag)

-----------------------------------------------------------------------------
(* Geometry of the wgpu painter: EguiPainter::upload_egui_data, 634-796.    *)

PanicSliceRange == "range end index out of range for slice"

\* painter.rs 636-642: total vertices and indices of the Mesh primitives
RECURSIVE TotalVertices(_)
TotalVertices(meshes) ==
    IF meshes = <<>> THEN 0
    ELSE (IF Head(meshes).kind = "Mesh" THEN Head(meshes).vertices ELSE 0)
         + TotalVertices(Tail(meshes))

RECURSIVE TotalIndices(_)
TotalIndices(meshes) ==
    IF meshes = <<>> THEN 0
    ELSE (IF Head(meshes).kind = "Mesh" THEN Head(meshes).indices ELSE 0)
         + TotalIndices(Tail(meshes))

\* mutant: the callbacks-only return is taken only when both totals are zero
NoMeshData_Both(vb_total, ib_total) == vb_total = 0 /\ ib_total = 0

\* painter.rs 643: the frame takes the callbacks-only return
NoMeshData(vb_total, ib_total) == vb_total = 0 \/ ib_total = 0

\* painter.rs 660-672 and 779-791
CallbackDrawCall(clip_rect, p, scale, logical_size, physical_framebuffer_size) ==
    [kind |-> "Callback",
     clip_rect |-> clip_rect,
     paint_callback |-> p.callback,
     paint_callback_info |-> [viewport |-> <<0, 0, logical_size[1], logical_size[2]>>,
                              clip_rect |-> p.clip_rect,
                              pixels_per_point |-> scale,
                              screen_size_px |-> physical_framebuffer_size]]

\* the prepare closure of a CallbackFn run against custom_data
PrepareCall(p) == [op |-> "prepare", callback |-> p.callback]

\* painter.rs 648-673: one Callback primitive of the callbacks-only return
EarlyCallback(acc, p, scale, logical_size, physical_framebuffer_size) ==
    IF ~p.callback.is_callback_fn
    THEN [acc EXCEPT !.panic = PanicDowncastPrepare]
    ELSE LET prepared == [acc EXCEPT !.log = Append(@, PrepareCall(p))]
             scissor == scissor_from_clip_rect(p.clip_rect, scale, physical_framebuffer_size)
         IN  IF IsSome(scissor)
             THEN [prepared EXCEPT !.draw_calls =
                      Append(@, CallbackDrawCall(Unwrap(scissor), p, scale, logical_size,
                                                 physical_framebuffer_size))]
             ELSE prepared

\* painter.rs 644-675: filter_map over the primitives, in order
RECURSIVE EarlyFrom(_, _, _, _, _, _)
EarlyFrom(acc, meshes, i, scale, logical_size, physical_framebuffer_size) ==
    IF i > Len(meshes) \/ acc.panic # "none" THEN acc
    ELSE EarlyFrom(IF meshes[i].kind = "Mesh" THEN acc
                   ELSE EarlyCallback(acc, meshes[i], scale, logical_size,
                                      physical_framebuffer_size),
                   meshes, i + 1, scale, logical_size, physical_framebuffer_size)

\* painter.rs 614-623: the records the removal takes out of the maps are dropped, which
\* releases their GPU objects
RECURSIVE DroppedTextures(_, _, _)
DroppedTextures(managed, user, tids) ==
    IF tids = <<>> THEN <<>>
    ELSE LET tid == Head(tids)
             held == tid.key \in DOMAIN (IF tid.tag = "Managed" THEN managed ELSE user)
         IN  (IF held THEN <<[op |-> "drop_texture", texture |-> tid]>> ELSE <<>>)
             \o DroppedTextures(RemoveTextures(managed, <<tid>>, "Managed"),
                                RemoveTextures(user, <<tid>>, "User"), Tail(tids))

\* mutant: the byte offset is handed out as the base vertex
BaseVertex_Bytes(vb_offset) == vb_offset

\* painter.rs 763-765: byte offset to the "nth" vertex
BaseVertex(vb_offset) == vb_offset \div VertexSize

\* painter.rs 767-768: byte offset to the index number
IndexAt(ib_offset) == ib_offset \div IndexSize

\* mutant: every mesh is written at the start of the buffers
MainMesh_Restarts(acc, p, clip_rect, vb_bytes, ib_bytes) ==
    LET new_vb_offset == p.vertices * VertexSize
        new_ib_offset == p.indices * IndexSize
    IN  [acc EXCEPT
            !.log = @ \o <<[op |-> "copy_vertices", offset |-> 0,
                            end |-> new_vb_offset, vertices |-> p.vertices],
                           [op |-> "copy_indices", offset |-> 0,
                            end |-> new_ib_offset, indices |-> p.indices]>>,
            !.draw_calls = Append(@, [kind |-> "Mesh",
                                      clip_rect |-> clip_rect,
                                      texture_id |-> p.texture_id,
                                      base_vertex |-> 0,
                                      index_start |-> 0,
                                      index_end |-> IndexAt(new_ib_offset)])]

\* painter.rs 743-773: one Mesh primitive that passed the scissor test
MainMesh(acc, p, clip_rect, vb_bytes, ib_bytes) ==
    LET new_vb_offset == acc.vb_offset + p.vertices * VertexSize
        new_ib_offset == acc.ib_offset + p.indices * IndexSize
    IN  IF new_vb_offset > vb_bytes \/ new_ib_offset > ib_bytes
        THEN [acc EXCEPT !.panic = PanicSliceRange]
        ELSE [acc EXCEPT
                !.log = @ \o <<[op |-> "copy_vertices", offset |-> acc.vb_offset,
                                end |-> new_vb_offset, vertices |-> p.vertices],
                               [op |-> "copy_indices", offset |-> acc.ib_offset,
                                end |-> new_ib_offset, indices |-> p.indices]>>,
                !.draw_calls = Append(@, [kind |-> "Mesh",
                                          clip_rect |-> clip_rect,
                                          texture_id |-> p.texture_id,
                                          base_vertex |-> BaseVertex(acc.vb_offset),
                                          index_start |-> IndexAt(acc.ib_offset),
                                          index_end |-> IndexAt(new_ib_offset)]),
                !.vb_offset = new_vb_offset,
                !.ib_offset = new_ib_offset]

\* mutant: a callback is prepared and its draw call is put ahead of the list
MainCallback_Front(acc, p, clip_rect, scale, logical_size, physical_framebuffer_size) ==
    IF ~p.callback.is_callback_fn
    THEN [acc EXCEPT !.panic = PanicDowncastPrepare]
    ELSE [acc EXCEPT !.log = Append(@, PrepareCall(p)),
                     !.draw_calls = <<CallbackDrawCall(clip_rect, p, scale, logical_size,
                                                       physical_framebuffer_size)>> \o @]

\* painter.rs 774-792: one Callback primitive that passed the scissor test
MainCallback(acc, p, clip_rect, scale, logical_size, physical_framebuffer_size) ==
    IF ~p.callback.is_callback_fn
    THEN [acc EXCEPT !.panic = PanicDowncastPrepare]
    ELSE [acc EXCEPT !.log = Append(@, PrepareCall(p)),
                     !.draw_calls = Append(@, CallbackDrawCall(clip_rect, p, scale,
                                                 logical_size, physical_framebuffer_size))]

\* mutant: a mesh is copied before its scissor is looked at
MainStep_CopiesFirst(acc, p, scale, logical_size, physical_framebuffer_size, vb_bytes, ib_bytes) ==
    LET scissor == scissor_from_clip_rect(p.clip_rect, scale, physical_framebuffer_size)
        copied == MainMesh(acc, p, <<0, 0, 0, 0>>, vb_bytes, ib_bytes)
    IN  IF p.kind = "Mesh"
        THEN IF IsSome(scissor)
             THEN MainMesh(acc, p, Unwrap(scissor), vb_bytes, ib_bytes)
             ELSE [copied EXCEPT !.draw_calls = acc.draw_calls]
        ELSE IF IsSome(scissor)
             THEN MainCallback(acc, p, Unwrap(scissor), scale, logical_size,
                               physical_framebuffer_size)
             ELSE acc

\* painter.rs 726-794: one iteration of the loop over the primitives
MainStep(acc, p, scale, logical_size, physical_framebuffer_size, vb_bytes, ib_bytes) ==
    LET scissor == scissor_from_clip_rect(p.clip_rect, scale, physical_framebuffer_size)
    IN  IF ~IsSome(scissor) THEN acc
        ELSE IF p.kind = "Mesh"
             THEN MainMesh(acc, p, Unwrap(scissor), vb_bytes, ib_bytes)
             ELSE MainCallback(acc, p, Unwrap(scissor), scale, logical_size,
                               physical_framebuffer_size)

RECURSIVE MainFrom(_, _, _, _, _, _, _, _)
MainFrom(acc, meshes, i, scale, logical_size, physical_framebuffer_size, vb_bytes, ib_bytes) ==
    IF i > Len(meshes) \/ acc.panic # "none" THEN acc
    ELSE MainFrom(MainStep(acc, meshes[i], scale, logical_size, physical_framebuffer_size,
                           vb_bytes, ib_bytes),
                  meshes, i + 1, scale, logical_size, physical_framebuffer_size,
                  vb_bytes, ib_bytes)

\* mutant: a buffer is created once, for the first frame that has mesh data
NeedsGrow_WhenEmpty(capacity, total) == capacity = 0

\* mutant: a buffer is replaced whenever the frame's total differs from its capacity
NeedsGrow_Differs(capacity, total) == capacity # total

\* painter.rs 679 and 688: a buffer is replaced when its capacity is too small
NeedsGrow(capacity, total) == capacity < total

\* mutant: a replaced buffer gets twice the room the frame needs
GrownSize_Doubled(total, element_size) == 2 * total * element_size

\* painter.rs 682 and 691: the size in bytes of a replaced buffer
GrownSize(total, element_size) == total * element_size

\* painter.rs 634-796: the geometry half of upload_egui_data.
\* geo = [vb_len, ib_len, vb, ib]; the result adds draw_calls, log and panic.
UploadGeometry(geo, meshes, scale, logical_size, physical_framebuffer_size) ==
    LET vb_total == TotalVertices(meshes)
        ib_total == TotalIndices(meshes)
    IN  IF NoMeshData(vb_total, ib_total)
        THEN LET r == EarlyFrom([draw_calls |-> <<>>, log |-> <<>>, panic |-> "none"],
                                meshes, 1, scale, logical_size, physical_framebuffer_size)
             IN  [vb_len |-> geo.vb_len, ib_len |-> geo.ib_len, vb |-> geo.vb, ib |-> geo.ib,
                  draw_calls |-> r.draw_calls, log |-> r.log, panic |-> r.panic]
        ELSE LET grow_vb == NeedsGrow(geo.vb_len, vb_total)
                 new_vb  == IF grow_vb
                            THEN [size |-> GrownSize(vb_total, VertexSize)]
                            ELSE geo.vb
                 new_vb_len == IF grow_vb THEN vb_total ELSE geo.vb_len
                 grow_ib == NeedsGrow(geo.ib_len, ib_total)
                 new_ib  == IF grow_ib
                            THEN [size |-> GrownSize(ib_total, IndexSize)]
                            ELSE geo.ib
                 new_ib_len == IF grow_ib THEN ib_total ELSE geo.ib_len
                 log0 == (IF grow_vb THEN <<[op |-> "create_buffer", buffer |-> "vb",
                                             size |-> new_vb.size]>> ELSE <<>>)
                         \o (IF grow_ib THEN <<[op |-> "create_buffer", buffer |-> "ib",
                                                size |-> new_ib.size]>> ELSE <<>>)
                         \o <<[op |-> "write_buffer_with", buffer |-> "vb",
                               size |-> new_vb_len * VertexSize],
                              [op |-> "write_buffer_with", buffer |-> "ib",
                               size |-> new_ib_len * IndexSize]>>
                 r == MainFrom([vb_offset |-> 0, ib_offset |-> 0, draw_calls |-> <<>>,
                                log |-> log0, panic |-> "none"],
                               meshes, 1, scale, logical_size, physical_framebuffer_size,
                               new_vb_len * VertexSize, new_ib_len * IndexSize)
             IN  [vb_len |-> new_vb_len, ib_len |-> new_ib_len, vb |-> new_vb, ib |-> new_ib,
                  draw_calls |-> r.draw_calls, log |-> r.log, panic |-> r.panic]

-----------------------------------------------------------------------------
(* The two entry points of the wgpu painter as actions.                     *)

\* Managed keys that the deltas of a set list create with a whole image
WholeCreated(set) ==
    {set[i].id.key : i \in {j \in DOMAIN set : set[j].id.tag = "Managed" /\ set[j].pos = None}}

ManagedKeysOf(tids) == {t.key : t \in {u \in Range(tids) : u.tag = "Managed"}}

\* EguiPainter::upload_egui_data, painter.rs 595-797
upload_egui_data(meshes, textures_delta, logical_size, physical_framebuffer_size) ==
    LET scale == ScaleOf(physical_framebuffer_size, logical_size)
        gone  == TexturesToRemoveNow(delete_textures, textures_delta.free)
    IN  /\ backend = "wgpu"
        /\ pc = "ready"
        /\ \E tex \in {set_textures([managed |-> RemoveTextures(managed_textures, gone, "Managed"),
                                      user |-> RemoveTextures(user_textures, gone, "User"),
                                      log |-> DroppedTextures(managed_textures,
                                                              user_textures, gone),
                                      mips |-> <<>>,
                                      orphans |-> <<>>,
                                      panic |-> "none"],
                                     textures_delta.set)},
              geo \in {UploadGeometry([vb_len |-> vb_len, ib_len |-> ib_len, vb |-> vb,
                                       ib |-> ib],
                                      meshes, scale, logical_size,
                                      physical_framebuffer_size)} :
            /\ frame' = [meshes |-> meshes, textures_delta |-> textures_delta,
                         logical_screen_size |-> logical_size,
                         physical_framebuffer_size |-> physical_framebuffer_size]
            /\ delete_textures' = TexturesToRemoveNext(delete_textures, textures_delta.free)
            /\ managed_textures' = tex.managed
            /\ user_textures' = tex.user
            /\ orphans' = tex.orphans
            /\ usable' = (usable \ ManagedKeysOf(delete_textures))
                            \cup WholeCreated(textures_delta.set)
            /\ rpass' = <<>>
            /\ IF tex.panic # "none"
               THEN /\ pc' = "aborted"
                    /\ panic' = tex.panic
                    /\ gpu_log' = tex.log
                    /\ draw_calls' = <<>>
                    /\ UNCHANGED <<vb_len, ib_len, vb, ib>>
               ELSE /\ pc' = IF geo.panic # "none" THEN "aborted" ELSE "uploaded"
                    /\ panic' = geo.panic
                    /\ gpu_log' = tex.log
                                    \o <<[op |-> "write_buffer", buffer |-> "screen_size_buffer",
                                          data |-> logical_size]>>
                                    \o geo.log
                    /\ draw_calls' = IF geo.panic # "none" THEN <<>> ELSE geo.draw_calls
                    /\ vb_len' = geo.vb_len
                    /\ ib_len' = geo.ib_len
                    /\ vb' = geo.vb
                    /\ ib' = geo.ib
            /\ UNCHANGED <<outer_vars, eval, backend, glow_vars>>

\* mutant: a Mesh draw call whose texture has no record is left out of the pass
DrawMesh_SkipsMissing(acc, dc, managed) ==
    LET bound == [acc EXCEPT !.log = @ \o
                     <<[op |-> "set_scissor_rect", rect |-> dc.clip_rect],
                       [op |-> "set_vertex_buffer", offset |-> dc.base_vertex * VertexSize]>>]
    IN  IF dc.texture_id.tag = "User"
        THEN [bound EXCEPT !.panic = PanicUserUnimplemented]
        ELSE IF dc.texture_id.key \notin DOMAIN managed
        THEN bound
        ELSE [bound EXCEPT !.log = @ \o
                 <<[op |-> "set_bind_group", index |-> 1,
                    texture |-> dc.texture_id],
                   [op |-> "draw_indexed", first |-> dc.index_start, last |-> dc.index_end,
                    base_vertex |-> 0]>>]

\* painter.rs 102-130: one Mesh draw call
DrawMesh(acc, dc, managed) ==
    LET bound == [acc EXCEPT !.log = @ \o
                     <<[op |-> "set_scissor_rect", rect |-> dc.clip_rect],
                       [op |-> "set_vertex_buffer", offset |-> dc.base_vertex * VertexSize]>>]
    IN  IF dc.texture_id.tag = "User"
        THEN [bound EXCEPT !.panic = PanicUserUnimplemented]
        ELSE IF dc.texture_id.key \notin DOMAIN managed
        THEN [bound EXCEPT !.panic = PanicNoManagedTexture]
        ELSE [bound EXCEPT !.log = @ \o
                 <<[op |-> "set_bind_group", index |-> 1,
                    texture |-> dc.texture_id],
                   [op |-> "draw_indexed", first |-> dc.index_start, last |-> dc.index_end,
                    base_vertex |-> 0]>>]

\* painter.rs 131-152: one Callback draw call
DrawCallback(acc, dc) ==
    LET scissored == [acc EXCEPT !.log = Append(@, [op |-> "set_scissor_rect",
                                                    rect |-> dc.clip_rect])]
    IN  IF ~dc.paint_callback.is_callback_fn
        THEN [scissored EXCEPT !.panic = PanicDowncastPaint]
        ELSE [scissored EXCEPT !.log = Append(@, [op |-> "paint",
                                                  callback |-> dc.paint_callback,
                                                  info |-> dc.paint_callback_info])]

\* painter.rs 100-154: the loop over the draw calls
RECURSIVE DrawFrom(_, _, _, _)
DrawFrom(acc, calls, i, managed) ==
    IF i > Len(calls) \/ acc.panic # "none" THEN acc
    ELSE DrawFrom(IF calls[i].kind = "Mesh" THEN DrawMesh(acc, calls[i], managed)
                  ELSE DrawCallback(acc, calls[i]),
                  calls, i + 1, managed)

\* painter.rs 95-99: pipeline, screen size bind group and the two buffers
RenderPassSetup(vertex_buffer, index_buffer) ==
    <<[op |-> "set_pipeline"],
      [op |-> "set_bind_group", index |-> 0, uniform |-> "screen_size"],
      [op |-> "set_vertex_buffer", offset |-> 0],
      [op |-> "set_index_buffer", size |-> index_buffer.size]>>

\* painter.rs 91-93: nothing is drawn while the vertex buffer is empty
SkipsDraw(vertex_buffer) == vertex_buffer.size = 0

\* EguiPainter::draw_egui_with_renderpass, painter.rs 86-155
draw_egui_with_renderpass ==
    /\ backend = "wgpu"
    /\ pc = "uploaded"
    /\ \E r \in {IF SkipsDraw(vb) THEN [log |-> <<>>, panic |-> "none"]
                 ELSE DrawFrom([log |-> RenderPassSetup(vb, ib), panic |-> "none"],
                               draw_calls, 1, managed_textures)} :
            /\ rpass' = r.log
            /\ panic' = r.panic
            /\ pc' = IF r.panic # "none" THEN "aborted" ELSE "drawn"
            /\ UNCHANGED <<outer_vars, eval, backend, frame, draw_calls, gpu_log, wgpu_vars, glow_vars, usable,
                           orphans>>

-----------------------------------------------------------------------------
(* The glow painter: Painter::prepare_render and Painter::render_egui.      *)

PanicTodo == "not yet implemented"

PanicGlNoTexture == "managed texture cannot be found"

PanicGlDelete == "can't find texture to delete"

\* glow lib.rs 281-284: the sampler named by the delta's minification filter
GlSamplerOf(delta) ==
    IF delta.minification = "Nearest" THEN "nearest_sampler" ELSE "linear_sampler"

\* glow lib.rs 291-307: the Vacant arm, a new GpuTexture without storage
GlVacant(self, i, delta) ==
    [self EXCEPT
        !.managed = MapInsert(@, delta.id.key,
                              [width |-> 0, height |-> 0,
                               sampler |-> IF delta.id.key = 0 THEN "font_sampler"
                                           ELSE GlSamplerOf(delta)]),
        !.log = Append(@, [op |-> "create_texture", i |-> i, texture |-> delta.id]),
        !.orphans = IF IsSome(delta.pos) THEN Append(@, i) ELSE @]

\* glow lib.rs 328-339: sub-image upload at the delta's position
GlSubImage(self, i, delta) ==
    [self EXCEPT !.log = Append(@, [op |-> "tex_sub_image_2d", i |-> i, texture |-> delta.id,
                                    origin |-> Unwrap(delta.pos),
                                    extent |-> <<delta.width, delta.height>>])]

\* glow lib.rs 340-363: whole-image upload, the record takes the image's size
GlImage(self, i, delta) ==
    [self EXCEPT !.managed = [@ EXCEPT ![delta.id.key].width = delta.width,
                                       ![delta.id.key].height = delta.height],
                 !.log = Append(@, [op |-> "tex_image_2d", i |-> i, texture |-> delta.id,
                                    extent |-> <<delta.width, delta.height>>])]

\* glow lib.rs 280-365: one iteration of the loop over textures_delta.set
GlApplyDelta(self, i, delta) ==
    IF delta.id.tag = "User" THEN [self EXCEPT !.panic = PanicTodo]
    ELSE LET entry == IF delta.id.key \in DOMAIN self.managed THEN self
                      ELSE GlVacant(self, i, delta)
             bound == [entry EXCEPT !.log = Append(@, [op |-> "bind_texture", i |-> i,
                                                       texture |-> delta.id])]
         IN  IF IsSome(delta.pos) THEN GlSubImage(bound, i, delta)
             ELSE GlImage(bound, i, delta)

RECURSIVE GlApplyDeltasFrom(_, _, _)
GlApplyDeltasFrom(self, set, i) ==
    IF i > Len(set) \/ self.panic # "none" THEN self
    ELSE GlApplyDeltasFrom(GlApplyDelta(self, i, set[i]), set, i + 1)

\* Painter::prepare_render, glow lib.rs 267-366
prepare_render(meshes, textures_delta, logical_size) ==
    /\ backend = "glow"
    /\ pc = "ready"
    /\ \E tex \in {GlApplyDeltasFrom([managed |-> gl_textures, log |-> <<>>,
                                      orphans |-> <<>>, panic |-> "none"],
                                     textures_delta.set, 1)} :
            /\ frame' = [meshes |-> meshes, textures_delta |-> textures_delta,
                         logical_screen_size |-> logical_size,
                         physical_framebuffer_size |-> screen_size_physical]
            /\ textures_to_delete' = textures_delta.free
            /\ clipped_primitives' = meshes
            /\ logical_screen_size' = logical_size
            /\ gl_textures' = tex.managed
            /\ gpu_log' = tex.log
            /\ orphans' = tex.orphans
            /\ panic' = tex.panic
            /\ pc' = IF tex.panic # "none" THEN "aborted" ELSE "uploaded"
            /\ rpass' = <<>>
            /\ draw_calls' = <<>>
            /\ UNCHANGED <<outer_vars, eval, backend, wgpu_vars, screen_size_physical, usable>>

\* glow lib.rs 419-457: one Mesh primitive that passed the scissor test
GlDrawMesh(acc, mesh, managed) ==
    LET loaded == [acc EXCEPT !.log = @ \o
                      <<[op |-> "buffer_data", target |-> "ARRAY_BUFFER",
                         count |-> mesh.vertices],
                        [op |-> "buffer_data", target |-> "ELEMENT_ARRAY_BUFFER",
                         count |-> mesh.indices]>>]
    IN  IF mesh.texture_id.tag = "User" THEN [loaded EXCEPT !.panic = PanicTodo]
        ELSE IF mesh.texture_id.key \notin DOMAIN managed
        THEN [loaded EXCEPT !.panic = PanicGlNoTexture]
        ELSE [loaded EXCEPT !.log = @ \o
                 <<[op |-> "bind_texture", texture |-> mesh.texture_id],
                   [op |-> "bind_sampler", sampler |-> managed[mesh.texture_id.key].sampler],
                   [op |-> "draw_elements", count |-> mesh.indices]>>]

\* glow lib.rs 403-461: one iteration of the loop over clipped_primitives
GlDrawStep(acc, p, scale, physical, managed) ==
    LET scissor == scissor_from_clip_rect_opengl(p.clip_rect, scale, physical)
    IN  IF ~IsSome(scissor) THEN acc
        ELSE LET scissored == [acc EXCEPT !.log = Append(@, [op |-> "scissor",
                                                             rect |-> Unwrap(scissor)])]
             IN  IF p.kind = "Mesh" THEN GlDrawMesh(scissored, p, managed)
                 ELSE [scissored EXCEPT !.panic = PanicTodo]

RECURSIVE GlDrawFrom(_, _, _, _, _, _)
GlDrawFrom(acc, prims, i, scale, physical, managed) ==
    IF i > Len(prims) \/ acc.panic # "none" THEN acc
    ELSE GlDrawFrom(GlDrawStep(acc, prims[i], scale, physical, managed),
                    prims, i + 1, scale, physical, managed)

\* glow lib.rs 463-476: the textures freed by this frame are deleted after its draws
RECURSIVE GlDeleteFrom(_, _, _)
GlDeleteFrom(acc, tids, i) ==
    IF i > Len(tids) \/ acc.panic # "none" THEN acc
    ELSE GlDeleteFrom(
            IF tids[i].tag = "User" THEN [acc EXCEPT !.panic = PanicTodo]
            ELSE IF tids[i].key \notin DOMAIN acc.managed
            THEN [acc EXCEPT !.panic = PanicGlDelete]
            ELSE [acc EXCEPT !.managed = MapRemove(@, tids[i].key),
                             !.log = Append(@, [op |-> "delete_texture",
                                                texture |-> tids[i]])],
            tids, i + 1)

\* mutant: the textures freed by the frame are deleted before its draws
render_egui_DeletesFirst ==
    /\ backend = "glow"
    /\ pc = "uploaded"
    /\ \E freed \in {GlDeleteFrom([managed |-> gl_textures, log |-> <<>>, panic |-> "none"],
                                  textures_to_delete, 1)} :
       \E drawn \in {GlDrawFrom([log |-> freed.log, panic |-> freed.panic],
                                clipped_primitives, 1,
                                ScaleOf(screen_size_physical, logical_screen_size),
                                screen_size_physical, freed.managed)} :
            /\ rpass' = drawn.log
            /\ panic' = drawn.panic
            /\ pc' = IF drawn.panic # "none" THEN "aborted" ELSE "drawn"
            /\ gl_textures' = freed.managed
            /\ textures_to_delete' = <<>>
            /\ UNCHANGED <<outer_vars, eval, backend, frame, draw_calls, gpu_log, wgpu_vars,
                           clipped_primitives, logical_screen_size, screen_size_physical,
                           usable, orphans>>

\* Painter::render_egui, glow lib.rs 369-478
render_egui ==
    /\ backend = "glow"
    /\ pc = "uploaded"
    /\ \E drawn \in {GlDrawFrom([log |-> <<>>, panic |-> "none"], clipped_primitives, 1,
                                ScaleOf(screen_size_physical, logical_screen_size),
                                screen_size_physical, gl_textures)} :
       \E freed \in {GlDeleteFrom([managed |-> gl_textures, log |-> drawn.log,
                                   panic |-> drawn.panic],
                                  textures_to_delete, 1)} :
            /\ rpass' = freed.log
            /\ panic' = freed.panic
            /\ pc' = IF freed.panic # "none" THEN "aborted" ELSE "drawn"
            /\ gl_textures' = freed.managed
            /\ textures_to_delete' = IF drawn.panic # "none" THEN textures_to_delete ELSE <<>>
            /\ UNCHANGED <<outer_vars, eval, backend, frame, draw_calls, gpu_log, wgpu_vars, clipped_primitives,
                           logical_screen_size, screen_size_physical, usable, orphans>>

\* GlowBackend::resize_framebuffer, glow lib.rs 145-152
resize_framebuffer(fb_size) ==
    /\ backend = "glow"
    /\ pc = "ready"
    /\ screen_size_physical' = fb_size
    /\ UNCHANGED <<outer_vars, eval, backend, pc, panic, frame, draw_calls, gpu_log, rpass, wgpu_vars,
                   gl_textures, textures_to_delete, clipped_primitives,
                   logical_screen_size, usable, orphans>>

\* Painter::new, glow lib.rs 207-263, with create_egui_vao_buffers and create_samplers
\* (helpers.rs 158-249): the objects the painter holds after construction
GlCreatedObjects ==
    {"egui_program", "vao", "vbo", "ebo", "linear_sampler", "nearest_sampler", "font_sampler"}

\* glow lib.rs 484-485 and 489-492: the objects Painter::destroy deletes, in order
GlDestroyed == <<"linear_sampler", "nearest_sampler", "egui_program", "vao", "vbo", "ebo">>

\* the orders in which a HashMap may hand out its keys
KeyOrders(m) == {q \in [1 .. Cardinality(DOMAIN m) -> DOMAIN m] : Range(q) = DOMAIN m}

\* Painter::destroy, glow lib.rs 482-493 (called by GlowBackend's Drop, lib.rs 85-89)
destroy ==
    /\ backend = "glow"
    /\ pc = "ready"
    /\ pc' = "destroyed"
    /\ \E order \in KeyOrders(gl_textures) :
          gpu_log' = [i \in 1 .. 2 |-> [op |-> "delete_sampler", sampler |-> GlDestroyed[i]]]
                     \o [i \in DOMAIN order |-> [op |-> "delete_texture",
                                                 texture |-> Managed(order[i])]]
                     \o <<[op |-> "delete_program", program |-> GlDestroyed[3]],
                          [op |-> "delete_vertex_array", vertex_array |-> GlDestroyed[4]],
                          [op |-> "delete_buffer", buffer |-> GlDestroyed[5]],
                          [op |-> "delete_buffer", buffer |-> GlDestroyed[6]]>>
    /\ gl_textures' = EmptyMap
    /\ gl_objects' = gl_objects \ Range(GlDestroyed)
    /\ UNCHANGED <<surface_vars, surface_format, pipeline, command_encoders, call, eval,
                   backend, panic, frame, draw_calls, rpass, wgpu_vars, textures_to_delete,
                   clipped_primitives, logical_screen_size, screen_size_physical, usable,
                   orphans, glfw_vars>>

NoFrame ==
    [meshes |-> <<>>, textures_delta |-> [set |-> <<>>, free |-> <<>>],
     logical_screen_size |-> <<0, 0>>, physical_framebuffer_size |-> <<0, 0>>]

\* WgpuBackend::render_egui, crates/egui_render_wgpu/src/lib.rs 261-263 (the render
\* pass ends and the encoder is queued) and GlowBackend::render_egui, glow lib.rs
\* 168-169: the call returns, the frame's input and draw list are gone
finish_render_egui ==
    /\ pc = "drawn"
    /\ pc' = "ready"
    /\ frame' = NoFrame
    /\ draw_calls' = <<>>
    /\ gpu_log' = <<>>
    /\ rpass' = <<>>
    /\ orphans' = <<>>
    /\ UNCHANGED <<outer_vars, eval, backend, panic, wgpu_vars, glow_vars, usable>>

-----------------------------------------------------------------------------
(* Inputs. *)

\* framebuffer size in physical pixels
FbSize == <<800, 600>>

\* logical screen size in points (scale 1)
LogicalSize == <<800, 600>>

Rect(x0, y0, x1, y1) == [min |-> <<x0, y0>>, max |-> <<x1, y1>>]

FullRect == Rect(0, 0, 800, 600)

PartRect == Rect(10, 20, 110, 220)

\* min == max
EmptyRect == Rect(100, 100, 100, 100)

\* fully outside the framebuffer
OutsideRect == Rect(1000, 1000, 2000, 2000)

MeshPrim(clip_rect, vertices, indices, texture_id) ==
    [kind |-> "Mesh", clip_rect |-> clip_rect, vertices |-> vertices, indices |-> indices,
     texture_id |-> texture_id]

CallbackPrim(clip_rect, name, is_callback_fn) ==
    [kind |-> "Callback", clip_rect |-> clip_rect,
     callback |-> [name |-> name, is_callback_fn |-> is_callback_fn]]

\* the 4-vertex / 6-index quad covering the whole screen
Quad == MeshPrim(FullRect, 4, 6, Managed(0))

Triangle == MeshPrim(PartRect, 3, 3, Managed(1))

\* a quad whose clip rectangle lies outside the framebuffer
ClippedQuad == MeshPrim(OutsideRect, 4, 6, Managed(0))

\* vertices without indices
Points == MeshPrim(FullRect, 3, 0, Managed(0))

GeomPrims ==
    {Quad, Triangle, ClippedQuad, Points,
     CallbackPrim(PartRect, "a", TRUE),
     CallbackPrim(EmptyRect, "b", TRUE),
     CallbackPrim(FullRect, "c", FALSE)}

WholeDelta(tex_id, width, height, magnification, minification) ==
    [id |-> tex_id, pos |-> None, width |-> width, height |-> height,
     magnification |-> magnification, minification |-> minification]

PatchDelta(tex_id, x, y, width, height) ==
    [id |-> tex_id, pos |-> Some(<<x, y>>), width |-> width, height |-> height,
     magnification |-> "Linear", minification |-> "Linear"]

\* the frames of the geometry specification create both textures every frame
GeomDelta ==
    [set  |-> <<WholeDelta(Managed(0), 16, 16, "Linear", "Linear"),
                WholeDelta(Managed(1), 16, 8, "Nearest", "Nearest")>>,
     free |-> <<>>]

TexKeys == {0, 1}

TexDeltas ==
    UNION {{WholeDelta(Managed(k), 16, 8, "Linear", "Linear"),
            WholeDelta(Managed(k), 16, 8, "Nearest", "Nearest"),
            WholeDelta(Managed(k), 16, 8, "Linear", "Nearest"),
            PatchDelta(Managed(k), 5, 5, 10, 10)} : k \in TexKeys}

TexFreeLists == {<<>>, <<Managed(0)>>, <<Managed(1)>>, <<Managed(0), Managed(1)>>}

TexMeshLists ==
    {<<>>} \cup {<<MeshPrim(FullRect, 4, 6, Managed(k))>> : k \in TexKeys}
           \cup {<<MeshPrim(FullRect, 4, 6, Managed(0)), MeshPrim(PartRect, 3, 3, Managed(1))>>}

\* primitives of the contract specification: two meshes, a callback holding a
\* CallbackFn, and two holding another payload, one of them with an empty clip rectangle
ContractPrims ==
    {Quad, Triangle,
     CallbackPrim(PartRect, "a", TRUE),
     CallbackPrim(FullRect, "c", FALSE),
     CallbackPrim(EmptyRect, "d", FALSE)}

\* the frames of the contract specification create no texture or the first one; the
\* second texture never has a record
ContractSets == {<<>>, <<WholeDelta(Managed(0), 16, 16, "Linear", "Linear")>>}

\* a quad that samples a texture registered by the host
UserQuad == MeshPrim(FullRect, 4, 6, User(0))

UserPrims == {Quad, UserQuad}

\* the frames of the user-texture specification create nothing, the font atlas, the
\* host's texture, or the host's texture and an image of the toolkit
UserSets ==
    {<<>>,
     <<WholeDelta(Managed(0), 16, 16, "Linear", "Linear")>>,
     <<WholeDelta(User(0), 16, 8, "Linear", "Linear")>>,
     <<WholeDelta(User(0), 16, 8, "Linear", "Linear"),
       WholeDelta(Managed(1), 4, 2, "Nearest", "Nearest")>>}

UserFreeLists == {<<>>, <<User(0)>>}

-----------------------------------------------------------------------------
(* WgpuBackend and its SurfaceManager.                                      *)

\* bound on the command encoders a host leaves unsubmitted
MaxEncoders == 2

Formats == {"Bgra8UnormSrgb", "Bgra8Unorm", "Rgba8Unorm", "Rgba16Float"}

\* TextureFormat::is_srgb
is_srgb(format) == format \in {"Bgra8UnormSrgb", "Rgba8UnormSrgb"}

PanicNoSurfaceTexture == "failed to get surface even after reconfiguration."

PanicNoViewForPass == "failed ot get surface view for egui render pass creation"

PanicPresentAssert == "assertion failed: self.surface_manager.surface_view.is_some()"

PanicNoImageToPresent == "failed to surface texture to preset"

PanicUnwrapNone == "called Option::unwrap() on a None value"

PanicNoFormats == "surface has zero supported texture formats"

\* surface.rs 142-151: the first entry of the priority list the surface supports
RECURSIVE FirstSupported(_, _, _)
FirstSupported(priority, supported_formats, i) ==
    IF i > Len(priority) THEN None
    ELSE IF priority[i] \in Range(supported_formats) THEN Some(priority[i])
    ELSE FirstSupported(priority, supported_formats, i + 1)

\* surface.rs 158-167: the first sRGB format of the surface, else its first format
FallbackFormat(supported_formats) ==
    LET srgb == SelectSeq(supported_formats, is_srgb)
    IN  IF srgb # <<>> THEN Some(Head(srgb))
        ELSE IF supported_formats # <<>> THEN Some(Head(supported_formats))
        ELSE None

\* surface.rs 142-168
ChooseFormat(priority, supported_formats) ==
    LET found == FirstSupported(priority, supported_formats, 1)
    IN  IF IsSome(found) THEN found ELSE FallbackFormat(supported_formats)

\* surface.rs 169-182
ViewFormat(format) ==
    IF is_srgb(format) THEN format
    ELSE IF format = "Rgba8Unorm" THEN "Rgba8UnormSrgb"
    ELSE IF format = "Bgra8Unorm" THEN "Bgra8UnormSrgb"
    ELSE format

\* surface.rs 126-140
ChooseAlphaMode(current, transparent, alpha_modes) ==
    IF ~transparent THEN current
    ELSE IF "Inherit" \in alpha_modes THEN "Inherit"
    ELSE IF "PreMultiplied" \in alpha_modes THEN "PreMultiplied"
    ELSE IF "PostMultiplied" \in alpha_modes THEN "PostMultiplied"
    ELSE "Auto"

\* SurfaceManager::resize_framebuffer, surface.rs 197-208
SurfaceResize(self, latest_fb_size) ==
    IF ~IsSome(self.surface) THEN [self EXCEPT !.panic = PanicUnwrapNone]
    ELSE [self EXCEPT !.surface_config.width = latest_fb_size[1],
                      !.surface_config.height = latest_fb_size[2],
                      !.surface = Some([configured |-> TRUE])]

\* SurfaceManager::reconfigure_surface, surface.rs 97-197
reconfigure_surface(self, window, transparent, latest_fb_size, capabilities) ==
    IF ~window THEN self
    ELSE LET created == IF IsSome(self.surface) THEN self
                        ELSE [self EXCEPT !.surface = Some([configured |-> FALSE])]
             format == ChooseFormat(surface_formats_priority, capabilities.formats)
         IN  IF ~IsSome(format)
             THEN [created EXCEPT !.panic = PanicNoFormats,
                                  !.surface_config.alpha_mode =
                                      ChooseAlphaMode(@, transparent, capabilities.alpha_modes)]
             ELSE SurfaceResize(
                     [created EXCEPT !.surface_config.alpha_mode =
                                         ChooseAlphaMode(@, transparent, capabilities.alpha_modes),
                                     !.surface_config.format = Unwrap(format),
                                     !.surface_config.view_formats =
                                         <<ViewFormat(Unwrap(format))>>],
                     latest_fb_size)

\* the fields of the surface manager, as a value the helpers above work on
SurfaceSelf ==
    [surface |-> surface, surface_view |-> surface_view,
     surface_current_image |-> surface_current_image, surface_config |-> surface_config,
     panic |-> "none"]

\* EguiPainter::on_resume, painter.rs 384-393: the surface_format field after the call
OnResumeFormat(current, requested) == current

\* EguiPainter::on_resume, painter.rs 385-392: the pipeline after the call
OnResumePipeline(current_pipeline, current_format, requested) ==
    IF current_format # requested THEN [format |-> requested] ELSE current_pipeline

\* WgpuBackend::resume, crates/egui_render_wgpu/src/lib.rs 169-192
WgpuBackend_resume(window, latest_fb_size, transparent, capabilities) ==
    /\ backend = "wgpu"
    /\ pc = "ready"
    /\ \E sm \in {reconfigure_surface(SurfaceSelf, window, transparent, latest_fb_size,
                                      capabilities)} :
          /\ surface' = sm.surface
          /\ surface_config' = sm.surface_config
          /\ IF sm.panic # "none"
             THEN /\ panic' = sm.panic
                  /\ pc' = "aborted"
                  /\ UNCHANGED <<surface_format, pipeline, call>>
             ELSE IF sm.surface_config.view_formats = <<>>
             THEN /\ panic' = PanicUnwrapNone
                  /\ pc' = "aborted"
                  /\ UNCHANGED <<surface_format, pipeline, call>>
             ELSE /\ pipeline' = OnResumePipeline(pipeline, surface_format,
                                                  Head(sm.surface_config.view_formats))
                  /\ surface_format' = OnResumeFormat(surface_format,
                                                      Head(sm.surface_config.view_formats))
                  /\ call' = "resume"
                  /\ UNCHANGED <<pc, panic>>
    /\ UNCHANGED <<surface_view, surface_current_image, surface_formats_priority,
                   command_encoders, eval, frame, draw_calls, gpu_log, rpass, wgpu_vars,
                   glow_vars, usable, orphans, backend, gl_objects, glfw_vars>>

\* mutant: a failed acquisition leaves the frame without a view
AcquireFailed_NoView(self) == self

\* surface.rs 62-68: get_current_texture failed twice
AcquireFailed(self) == [self EXCEPT !.panic = PanicNoSurfaceTexture]

\* SurfaceManager::create_current_surface_texture_view, surface.rs 56-93; first_ok and
\* retry_ok are what Surface::get_current_texture answers
create_current_surface_texture_view(self, latest_fb_size, first_ok, retry_ok) ==
    IF ~IsSome(self.surface) THEN self
    ELSE IF first_ok /\ Unwrap(self.surface).configured
    THEN [self EXCEPT !.surface_view = Some("surface view"),
                      !.surface_current_image = Some("surface texture")]
    ELSE LET again == [self EXCEPT !.surface_config.width = latest_fb_size[1],
                                   !.surface_config.height = latest_fb_size[2],
                                   !.surface = Some([configured |-> TRUE])]
         IN  IF retry_ok
             THEN [again EXCEPT !.surface_view = Some("surface view"),
                                !.surface_current_image = Some("surface texture")]
             ELSE AcquireFailed(again)

\* WgpuBackend::prepare_frame, crates/egui_render_wgpu/src/lib.rs 194-217
WgpuBackend_prepare_frame(latest_fb_size, first_ok, retry_ok) ==
    /\ backend = "wgpu"
    /\ pc = "ready"
    /\ Len(command_encoders) < MaxEncoders
    /\ \E sm \in {create_current_surface_texture_view(SurfaceSelf, latest_fb_size,
                                                      first_ok, retry_ok)} :
          /\ surface' = sm.surface
          /\ surface_config' = sm.surface_config
          /\ surface_view' = sm.surface_view
          /\ surface_current_image' = sm.surface_current_image
          /\ IF sm.panic # "none"
             THEN /\ panic' = sm.panic
                  /\ pc' = "aborted"
                  /\ UNCHANGED <<command_encoders, call>>
             ELSE /\ command_encoders' =
                        IF IsSome(sm.surface_view)
                        THEN Append(command_encoders, "surface clear ce")
                        ELSE command_encoders
                  /\ call' = "prepare_frame"
                  /\ UNCHANGED <<pc, panic>>
    /\ UNCHANGED <<surface_formats_priority, surface_format, pipeline, eval, frame,
                   draw_calls, gpu_log, rpass, wgpu_vars, glow_vars, usable, orphans,
                   backend, gl_objects, glfw_vars>>

\* WgpuBackend::render_egui, crates/egui_render_wgpu/src/lib.rs 219-264, for a frame
\* without primitives and without texture deltas: upload_egui_data returns an empty
\* list and leaves the painter as it was, the pass is begun on the surface view
WgpuBackend_render_egui ==
    /\ backend = "wgpu"
    /\ pc = "ready"
    /\ Len(command_encoders) < MaxEncoders
    /\ IF ~IsSome(surface_view)
       THEN /\ panic' = PanicNoViewForPass
            /\ pc' = "aborted"
            /\ UNCHANGED <<command_encoders, call>>
       ELSE /\ command_encoders' = Append(command_encoders, "egui command encoder")
            /\ call' = "render_egui"
            /\ UNCHANGED <<pc, panic>>
    /\ UNCHANGED <<surface_vars, surface_format, pipeline, eval, frame, draw_calls,
                   gpu_log, rpass, wgpu_vars, glow_vars, usable, orphans, backend, gl_objects, glfw_vars>>

\* WgpuBackend::present, crates/egui_render_wgpu/src/lib.rs 265-283
WgpuBackend_present ==
    /\ backend = "wgpu"
    /\ pc = "ready"
    /\ IF ~IsSome(surface_view)
       THEN /\ panic' = PanicPresentAssert
            /\ pc' = "aborted"
            /\ UNCHANGED <<command_encoders, surface_view, surface_current_image, call>>
       ELSE /\ command_encoders' = <<>>
            /\ surface_view' = None
            /\ IF ~IsSome(surface_current_image)
               THEN /\ panic' = PanicNoImageToPresent
                    /\ pc' = "aborted"
                    /\ UNCHANGED <<surface_current_image, call>>
               ELSE /\ surface_current_image' = None
                    /\ call' = "present"
                    /\ UNCHANGED <<pc, panic>>
    /\ UNCHANGED <<surface, surface_config, surface_formats_priority, surface_format,
                   pipeline, eval, frame, draw_calls, gpu_log, rpass, wgpu_vars, glow_vars,
                   usable, orphans, backend, gl_objects, glfw_vars>>

\* WgpuBackend::resize_framebuffer, crates/egui_render_wgpu/src/lib.rs 285-288
WgpuBackend_resize_framebuffer(latest_fb_size) ==
    /\ backend = "wgpu"
    /\ pc = "ready"
    /\ \E sm \in {SurfaceResize(SurfaceSelf, latest_fb_size)} :
          /\ surface' = sm.surface
          /\ surface_config' = sm.surface_config
          /\ IF sm.panic # "none"
             THEN panic' = sm.panic /\ pc' = "aborted" /\ UNCHANGED call
             ELSE call' = "resize_framebuffer" /\ UNCHANGED <<pc, panic>>
    /\ UNCHANGED <<surface_view, surface_current_image, surface_formats_priority,
                   surface_format, pipeline, command_encoders, eval, frame, draw_calls,
                   gpu_log, rpass, wgpu_vars, glow_vars, usable, orphans, backend, gl_objects, glfw_vars>>

\* mutant: suspend drops the surface and the acquired image and keeps the view
WgpuBackend_suspend_KeepsView ==
    /\ backend = "wgpu"
    /\ pc = "ready"
    /\ surface' = None
    /\ surface_current_image' = None
    /\ call' = "suspend"
    /\ UNCHANGED <<surface_view, surface_config, surface_formats_priority, surface_format,
                   pipeline, command_encoders, eval, pc, panic, frame, draw_calls, gpu_log,
                   rpass, wgpu_vars, glow_vars, usable, orphans, backend, gl_objects,
                   glfw_vars>>

\* WgpuBackend::suspend, crates/egui_render_wgpu/src/lib.rs 290-292 and
\* SurfaceManager::suspend, surface.rs 209-213
WgpuBackend_suspend ==
    /\ backend = "wgpu"
    /\ pc = "ready"
    /\ surface' = None
    /\ surface_current_image' = None
    /\ surface_view' = None
    /\ call' = "suspend"
    /\ UNCHANGED <<surface_config, surface_formats_priority, surface_format, pipeline,
                   command_encoders, eval, pc, panic, frame, draw_calls, gpu_log, rpass,
                   wgpu_vars, glow_vars, usable, orphans, backend, gl_objects, glfw_vars>>

\* WgpuConfig::default, crates/egui_render_wgpu/src/lib.rs 32-41
DefaultSurfaceConfig ==
    [format |-> "Bgra8UnormSrgb", width |-> 0, height |-> 0, alpha_mode |-> "Auto",
     view_formats |-> <<>>]

\* WgpuBackend::new_async, crates/egui_render_wgpu/src/lib.rs 75-158: the surface is
\* created from the window, SurfaceManager::new is handed no window and so does not
\* configure it, and the painter is created for the format of the configuration
WgpuBackend_new(config, window) ==
    /\ surface = IF window THEN Some([configured |-> FALSE]) ELSE None
    /\ surface_view = None
    /\ surface_current_image = None
    /\ surface_config = config.surface_config
    /\ surface_formats_priority = config.surface_formats_priority
    /\ surface_format = config.surface_config.format
    /\ pipeline = [format |-> config.surface_config.format]
    /\ command_encoders = <<>>
    /\ call = "new"

\* priority lists a host configures
PriorityLists == {<<>>, <<"Rgba16Float", "Rgba8Unorm">>, <<"Rgba16Float">>}

\* configurations a host passes to WgpuBackend::new
SurfaceConfigs ==
    {[surface_config |-> [DefaultSurfaceConfig EXCEPT !.format = f],
      surface_formats_priority |-> p] :
        f \in {"Bgra8UnormSrgb", "Bgra8Unorm"}, p \in PriorityLists}

\* what Surface::get_capabilities reports
SurfaceCapabilities ==
    {[formats |-> f, alpha_modes |-> a] :
        f \in {<<"Bgra8UnormSrgb", "Bgra8Unorm">>,
               <<"Bgra8Unorm", "Bgra8UnormSrgb", "Rgba8Unorm">>,
               <<"Rgba8Unorm", "Rgba16Float">>},
        a \in {{"Opaque"}, {"Opaque", "PreMultiplied"}}}

\* framebuffer sizes the window reports
FbSizes == {FbSize, <<1024, 768>>}

-----------------------------------------------------------------------------
(* GlfwBackend, crates/egui_window_glfw_passthrough/src/lib.rs, and the event loop of
   src/lib.rs. The content scale and the physical pixels per virtual unit are 1, so
   physical, virtual and logical coordinates coincide. *)

\* the longest list of window events one tick flushes
MaxEvents == 2

\* egui events the backend pushes
PointerGone == [type |-> "PointerGone"]

PointerMoved(pos) == [type |-> "PointerMoved", pos |-> pos]

TextEvent == [type |-> "Text"]

\* positions the cursor is polled at: two inside every window, one inside the larger
\* window only, one outside both
CursorPositions == {<<10, 10>>, <<20, 20>>, <<900, 700>>, <<2000, 10>>}

\* window events glfw delivers
WindowEvents ==
    {[type |-> "FramebufferSize", size |-> z] : z \in FbSizes}
    \cup {[type |-> "CursorPos", pos |-> p] : p \in {<<10, 10>>, <<20, 20>>}}
    \cup {[type |-> "CursorEnter", entered |-> c] : c \in BOOLEAN}
    \cup {[type |-> "Char"]}

\* egui::Rect::from_two_pos(Default::default(), size).contains(pos), lib.rs 541-544
WindowBoundsContain(size, pos) ==
    /\ 0 <= pos[1] /\ pos[1] <= size[1]
    /\ 0 <= pos[2] /\ pos[2] <= size[2]

\* a tick whose FramebufferSize arm records the size only
HandleWindowEvent_NoFlag(g, event, passthrough) ==
    CASE event.type = "FramebufferSize" ->
           [g EXCEPT !.framebuffer_size_physical = event.size,
                     !.window_size_logical = event.size]
      [] event.type = "Char" -> [g EXCEPT !.events = Append(@, TextEvent)]
      [] OTHER -> g

\* one arm of the match of GlfwBackend::tick, lib.rs 335-532; g is the backend with the
\* local cursor_event and the events of raw_input
HandleWindowEvent(g, event, passthrough) ==
    CASE event.type = "FramebufferSize" ->
           [g EXCEPT !.framebuffer_size_physical = event.size,
                     !.resized_event_pending = TRUE,
                     !.window_size_logical = event.size]
      [] event.type = "CursorPos" ->
           [g EXCEPT !.cursor_inside_bounds = TRUE,
                     !.cursor_event = TRUE,
                     !.cursor_pos = event.pos,
                     !.events = Append(@, PointerMoved(event.pos))]
      [] event.type = "CursorEnter" ->
           [g EXCEPT !.cursor_inside_bounds = event.entered,
                     !.events = IF event.entered \/ passthrough
                                THEN @ ELSE Append(@, PointerGone)]
      [] event.type = "Char" -> [g EXCEPT !.events = Append(@, TextEvent)]

\* the loop over glfw::flush_messages, lib.rs 329-533
RECURSIVE HandleWindowEvents(_, _, _)
HandleWindowEvents(g, events, passthrough) ==
    IF events = <<>> THEN g
    ELSE HandleWindowEvents(HandleWindowEvent(g, Head(events), passthrough), Tail(events),
                            passthrough)

\* the simulated pointer events of a passthrough window, lib.rs 539-571
SimulatePointer(g, logical_cursor_pos, passthrough) ==
    IF ~g.cursor_event /\ passthrough
    THEN IF WindowBoundsContain(g.window_size_logical, logical_cursor_pos)
         THEN [g EXCEPT !.events = IF logical_cursor_pos # g.cursor_pos
                                   THEN Append(@, PointerMoved(logical_cursor_pos)) ELSE @,
                        !.cursor_inside_bounds = TRUE]
         ELSE IF g.cursor_inside_bounds
              THEN [g EXCEPT !.events = Append(@, PointerGone),
                             !.cursor_inside_bounds = FALSE]
              ELSE g
    ELSE g

\* GlfwBackend::tick, lib.rs 323-573, called by the event loop after it waited for
\* events, src/lib.rs 135-150
tick(events, virtual_cursor_pos) ==
    /\ loop_pc = "poll"
    /\ loop_pc' = "ticked"
    /\ frame_events' = events
    /\ LET self == [framebuffer_size_physical |-> framebuffer_size_physical,
                    window_size_logical |-> window_size_logical,
                    cursor_pos |-> cursor_pos,
                    cursor_inside_bounds |-> cursor_inside_bounds,
                    resized_event_pending |-> resized_event_pending,
                    events |-> raw_input.events,
                    cursor_event |-> FALSE]
           g == SimulatePointer(HandleWindowEvents(self, events, mouse_passthrough),
                                virtual_cursor_pos, mouse_passthrough)
       IN  /\ framebuffer_size_physical' = g.framebuffer_size_physical
           /\ window_size_logical' = g.window_size_logical
           /\ cursor_inside_bounds' = g.cursor_inside_bounds
           /\ resized_event_pending' = g.resized_event_pending
           /\ raw_input' = [raw_input EXCEPT !.events = g.events]
           /\ cursor_pos' = virtual_cursor_pos
    /\ UNCHANGED <<mouse_passthrough, surface_vars, surface_format, pipeline, command_encoders,
                   call, gl_objects, eval, backend, pc, panic, frame, draw_calls, gpu_log,
                   rpass, wgpu_vars, glow_vars, usable, orphans>>

\* the event loop after tick, src/lib.rs 151-155: a pending resize reaches the graphics
\* backend (ThreeDBackend::resize_framebuffer, three_d lib.rs 61-63, which is
\* GlowBackend::resize_framebuffer, glow lib.rs 145-152) with the size the window reports
\* now, and the flag is cleared
resize_if_pending(latest_size) ==
    /\ loop_pc = "ticked"
    /\ loop_pc' = "input"
    /\ IF resized_event_pending
       THEN /\ screen_size_physical' = latest_size
            /\ resized_event_pending' = FALSE
       ELSE UNCHANGED <<screen_size_physical, resized_event_pending>>
    /\ UNCHANGED <<framebuffer_size_physical, window_size_logical, cursor_pos,
                   cursor_inside_bounds, raw_input, frame_events, mouse_passthrough,
                   surface_vars, surface_format, pipeline, command_encoders,
                   call, gl_objects, eval, backend, pc, panic, frame, draw_calls, gpu_log,
                   rpass, wgpu_vars, gl_textures, textures_to_delete, clipped_primitives,
                   logical_screen_size, usable, orphans>>

\* GlfwBackend::take_raw_input, lib.rs 249-251, the first call of a frame, src/lib.rs 87
take_raw_input ==
    /\ loop_pc = "input"
    /\ loop_pc' = "gui"
    /\ raw_input' = [raw_input EXCEPT !.events = <<>>]
    /\ UNCHANGED <<framebuffer_size_physical, window_size_logical, cursor_pos,
                   cursor_inside_bounds, frame_events, resized_event_pending,
                   mouse_passthrough, surface_vars, surface_format, pipeline, command_encoders,
                   call, gl_objects, eval, backend, pc, panic, frame, draw_calls, gpu_log,
                   rpass, wgpu_vars, glow_vars, usable, orphans>>

\* the host's gui_run decides whether the window is passthrough, examples/basic.rs 88-93
gui_run(passthrough) ==
    /\ loop_pc = "gui"
    /\ loop_pc' = "render"
    /\ mouse_passthrough' = passthrough
    /\ UNCHANGED <<framebuffer_size_physical, window_size_logical, cursor_pos,
                   cursor_inside_bounds, raw_input, frame_events, resized_event_pending,
                   surface_vars, surface_format, pipeline, command_encoders,
                   call, gl_objects, eval, backend, pc, panic, frame, draw_calls, gpu_log,
                   rpass, wgpu_vars, glow_vars, usable, orphans>>

\* EguiOverlay::run hands the frame to the graphics backend with the window's logical
\* size, src/lib.rs 110 (GlowBackend::render_egui, glow lib.rs 154-170, first half)
run_prepare_render(meshes, textures_delta) ==
    /\ loop_pc = "render"
    /\ prepare_render(meshes, textures_delta, window_size_logical)

\* GlowBackend::render_egui, glow lib.rs 154-170, second half
run_render_egui ==
    /\ loop_pc = "render"
    /\ render_egui

\* render_egui returns, the buffers are swapped and the callback of the event loop
\* returns, src/lib.rs 110-118 and 156-170
swap_buffers ==
    /\ loop_pc = "render"
    /\ pc = "drawn"
    /\ loop_pc' = "poll"
    /\ pc' = "ready"
    /\ frame' = NoFrame
    /\ draw_calls' = <<>>
    /\ gpu_log' = <<>>
    /\ rpass' = <<>>
    /\ orphans' = <<>>
    /\ UNCHANGED <<framebuffer_size_physical, window_size_logical, cursor_pos,
                   cursor_inside_bounds, raw_input, frame_events, resized_event_pending,
                   mouse_passthrough, surface_vars, surface_format, pipeline, command_encoders,
                   call, gl_objects, eval, backend, panic, wgpu_vars, glow_vars, usable>>

\* GlfwBackend::new, lib.rs 106-247: the window has the given framebuffer size and the
\* cursor is polled once
GlfwBackend_new(size, cursor, passthrough) ==
    /\ framebuffer_size_physical = size
    /\ window_size_logical = size
    /\ cursor_pos = cursor
    /\ cursor_inside_bounds = FALSE
    /\ raw_input = [events |-> <<>>]
    /\ frame_events = <<>>
    /\ resized_event_pending = TRUE
    /\ mouse_passthrough = passthrough
    /\ loop_pc = "poll"

-----------------------------------------------------------------------------
(* Specifications. *)

\* no free function has been called
NoEval == [fn |-> "none"]

InitPainters ==
    /\ pc = "ready"
    /\ panic = "none"
    /\ frame = NoFrame
    /\ draw_calls = <<>>
    /\ gpu_log = <<>>
    /\ rpass = <<>>
    /\ vb_len = 0
    /\ ib_len = 0
    /\ vb = [size |-> 0]
    /\ ib = [size |-> 0]
    /\ managed_textures = EmptyMap
    /\ user_textures = EmptyMap
    /\ delete_textures = <<>>
    /\ gl_textures = EmptyMap
    /\ textures_to_delete = <<>>
    /\ clipped_primitives = <<>>
    /\ logical_screen_size = <<0, 0>>
    /\ screen_size_physical = <<0, 0>>
    /\ usable = {}
    /\ orphans = <<>>
    /\ eval = NoEval
    /\ WgpuBackend_new([surface_config |-> DefaultSurfaceConfig,
                        surface_formats_priority |-> <<>>], FALSE)
    /\ gl_objects = IF backend = "glow" THEN GlCreatedObjects ELSE {}
    /\ GlfwBackend_new(FbSize, <<10, 10>>, FALSE)

\* a frame of the geometry specification reaches the wgpu painter
UploadGeom ==
    \E meshes \in SeqUpTo(GeomPrims, MaxPrims) :
        upload_egui_data(meshes, GeomDelta, LogicalSize, FbSize)

\* a frame of the texture specification reaches the wgpu painter
UploadTex ==
    \E meshes \in TexMeshLists, set \in SeqUpTo(TexDeltas, MaxDeltas), free \in TexFreeLists :
        upload_egui_data(meshes, [set |-> set, free |-> free], LogicalSize, FbSize)

InitGeom == backend = "wgpu" /\ InitPainters

NextGeom == UploadGeom \/ draw_egui_with_renderpass \/ finish_render_egui

SpecGeom == InitGeom /\ [][NextGeom]_vars

\* a frame of the texture specification reaches the glow painter
PrepareTex ==
    \E meshes \in TexMeshLists, set \in SeqUpTo(TexDeltas, MaxDeltas), free \in TexFreeLists :
        prepare_render(meshes, [set |-> set, free |-> free], LogicalSize)

ResizeTex == resize_framebuffer(FbSize)

InitTex == backend \in {"wgpu", "glow"} /\ InitPainters

NextTex ==
    \/ UploadTex
    \/ draw_egui_with_renderpass
    \/ PrepareTex
    \/ render_egui
    \/ ResizeTex
    \/ finish_render_egui

SpecTex == InitTex /\ [][NextTex]_vars

\* a frame of the contract specification reaches the wgpu painter
UploadContract ==
    \E meshes \in SeqUpTo(ContractPrims, MaxPrims), set \in ContractSets :
        upload_egui_data(meshes, [set |-> set, free |-> <<>>], LogicalSize, FbSize)

\* a frame of the contract specification reaches the glow painter
PrepareContract ==
    \E meshes \in SeqUpTo(ContractPrims, MaxPrims), set \in ContractSets :
        prepare_render(meshes, [set |-> set, free |-> <<>>], LogicalSize)

NextContract ==
    \/ UploadContract
    \/ draw_egui_with_renderpass
    \/ PrepareContract
    \/ render_egui
    \/ ResizeTex
    \/ finish_render_egui

SpecContract == InitTex /\ [][NextContract]_vars

\* a frame of the user-texture specification reaches the wgpu painter
UploadUser ==
    \E meshes \in SeqUpTo(UserPrims, MaxPrims), set \in UserSets, free \in UserFreeLists :
        upload_egui_data(meshes, [set |-> set, free |-> free], LogicalSize, FbSize)

NextUser == UploadUser \/ draw_egui_with_renderpass \/ finish_render_egui

SpecUser == InitGeom /\ [][NextUser]_vars

ResumeSurface ==
    \E window \in BOOLEAN, latest_fb_size \in FbSizes, transparent \in BOOLEAN,
       capabilities \in SurfaceCapabilities :
        WgpuBackend_resume(window, latest_fb_size, transparent, capabilities)

PrepareFrameSurface ==
    \E latest_fb_size \in FbSizes, first_ok \in BOOLEAN, retry_ok \in BOOLEAN :
        WgpuBackend_prepare_frame(latest_fb_size, first_ok, retry_ok)

ResizeSurface == \E latest_fb_size \in FbSizes : WgpuBackend_resize_framebuffer(latest_fb_size)

InitSurface ==
    /\ backend = "wgpu"
    /\ pc = "ready"
    /\ panic = "none"
    /\ frame = NoFrame
    /\ draw_calls = <<>>
    /\ gpu_log = <<>>
    /\ rpass = <<>>
    /\ vb_len = 0
    /\ ib_len = 0
    /\ vb = [size |-> 0]
    /\ ib = [size |-> 0]
    /\ managed_textures = EmptyMap
    /\ user_textures = EmptyMap
    /\ delete_textures = <<>>
    /\ gl_textures = EmptyMap
    /\ textures_to_delete = <<>>
    /\ clipped_primitives = <<>>
    /\ logical_screen_size = <<0, 0>>
    /\ screen_size_physical = <<0, 0>>
    /\ usable = {}
    /\ orphans = <<>>
    /\ eval = NoEval
    /\ gl_objects = {}
    /\ \E config \in SurfaceConfigs, window \in BOOLEAN : WgpuBackend_new(config, window)
    /\ GlfwBackend_new(FbSize, <<10, 10>>, FALSE)

NextSurface ==
    \/ ResumeSurface
    \/ PrepareFrameSurface
    \/ WgpuBackend_render_egui
    \/ WgpuBackend_present
    \/ ResizeSurface
    \/ WgpuBackend_suspend

SpecSurface == InitSurface /\ [][NextSurface]_vars

InitGlow == backend = "glow" /\ InitPainters

NextGlow ==
    \/ PrepareTex
    \/ render_egui
    \/ ResizeTex
    \/ finish_render_egui
    \/ destroy

SpecGlow == InitGlow /\ [][NextGlow]_vars

\* ids that hold a texture in both painters when a frame begins: the wgpu painter is
\* about to remove what the frame before freed (painter.rs 612-623)
LiveAtStart ==
    (DOMAIN managed_textures \ ManagedKeysOf(delete_textures)) \cap DOMAIN gl_textures

\* every sub-region delta of the frame targets a live id and every freed id is live
LiveTargets(textures_delta) ==
    /\ \A i \in DOMAIN textures_delta.set :
          IsSome(textures_delta.set[i].pos) =>
              textures_delta.set[i].id.key
                  \in LiveAtStart \cup WholeCreated(SubSeq(textures_delta.set, 1, i - 1))
    /\ ManagedKeysOf(textures_delta.free)
          \subseteq LiveAtStart \cup WholeCreated(textures_delta.set)

\* one frame of texture deltas, without primitives, reaches EguiPainter::upload_egui_data
\* (painter.rs 595-626, the geometry part returns at 642-676 with nothing) and
\* Painter::prepare_render (glow lib.rs 267-366)
pair_upload(textures_delta) ==
    /\ backend = "both"
    /\ pc = "ready"
    /\ LiveTargets(textures_delta)
    /\ LET gone == TexturesToRemoveNow(delete_textures, textures_delta.free)
       IN  \E tex \in {set_textures([managed |-> RemoveTextures(managed_textures, gone,
                                                                "Managed"),
                                     user |-> RemoveTextures(user_textures, gone, "User"),
                                     log |-> DroppedTextures(managed_textures,
                                                             user_textures, gone),
                                     mips |-> <<>>,
                                     orphans |-> <<>>,
                                     panic |-> "none"],
                                    textures_delta.set)},
              gl \in {GlApplyDeltasFrom([managed |-> gl_textures, log |-> <<>>,
                                         orphans |-> <<>>, panic |-> "none"],
                                        textures_delta.set, 1)} :
            /\ frame' = [meshes |-> <<>>, textures_delta |-> textures_delta,
                         logical_screen_size |-> LogicalSize,
                         physical_framebuffer_size |-> FbSize]
            /\ delete_textures' = TexturesToRemoveNext(delete_textures, textures_delta.free)
            /\ managed_textures' = tex.managed
            /\ user_textures' = tex.user
            /\ textures_to_delete' = textures_delta.free
            /\ clipped_primitives' = <<>>
            /\ logical_screen_size' = LogicalSize
            /\ gl_textures' = gl.managed
            /\ gpu_log' = tex.log \o gl.log
            /\ orphans' = tex.orphans \o gl.orphans
            /\ panic' = IF tex.panic # "none" THEN tex.panic ELSE gl.panic
            /\ pc' = IF tex.panic # "none" \/ gl.panic # "none" THEN "aborted" ELSE "uploaded"
            /\ rpass' = <<>>
            /\ draw_calls' = <<>>
            /\ usable' = (usable \ ManagedKeysOf(delete_textures))
                            \cup WholeCreated(textures_delta.set)
            /\ UNCHANGED <<outer_vars, eval, backend, vb_len, ib_len, vb, ib,
                           screen_size_physical>>

\* the draws of the frame: EguiPainter::draw_egui_with_renderpass has no draw call to
\* replay (painter.rs 86-160) and Painter::render_egui has no primitive to draw and then
\* deletes what the frame freed (glow lib.rs 369-478)
pair_render ==
    /\ backend = "both"
    /\ pc = "uploaded"
    /\ \E freed \in {GlDeleteFrom([managed |-> gl_textures, log |-> <<>>, panic |-> "none"],
                                  textures_to_delete, 1)} :
            /\ rpass' = freed.log
            /\ panic' = freed.panic
            /\ pc' = IF freed.panic # "none" THEN "aborted" ELSE "drawn"
            /\ gl_textures' = freed.managed
            /\ textures_to_delete' = <<>>
            /\ UNCHANGED <<outer_vars, eval, backend, frame, draw_calls, gpu_log, wgpu_vars,
                           clipped_primitives, logical_screen_size, screen_size_physical,
                           usable, orphans>>

\* the two painters side by side
InitPair == backend = "both" /\ InitPainters

PairUpload ==
    \E set \in SeqUpTo(TexDeltas, MaxDeltas), free \in TexFreeLists :
        pair_upload([set |-> set, free |-> free])

NextPair == PairUpload \/ pair_render \/ finish_render_egui

SpecPair == InitPair /\ [][NextPair]_vars

\* the window backend under the event loop: windows of every size, the cursor anywhere
InitGlfw ==
    /\ backend = "glow"
    /\ pc = "ready"
    /\ panic = "none"
    /\ frame = NoFrame
    /\ draw_calls = <<>>
    /\ gpu_log = <<>>
    /\ rpass = <<>>
    /\ vb_len = 0
    /\ ib_len = 0
    /\ vb = [size |-> 0]
    /\ ib = [size |-> 0]
    /\ managed_textures = EmptyMap
    /\ user_textures = EmptyMap
    /\ delete_textures = <<>>
    /\ gl_textures = EmptyMap
    /\ textures_to_delete = <<>>
    /\ clipped_primitives = <<>>
    /\ logical_screen_size = <<0, 0>>
    /\ screen_size_physical = <<0, 0>>
    /\ usable = {}
    /\ orphans = <<>>
    /\ eval = NoEval
    /\ gl_objects = GlCreatedObjects
    /\ WgpuBackend_new([surface_config |-> DefaultSurfaceConfig,
                        surface_formats_priority |-> <<>>], FALSE)
    /\ \E size \in FbSizes, cursor \in CursorPositions, passthrough \in BOOLEAN :
          GlfwBackend_new(size, cursor, passthrough)

TickGlfw ==
    \E events \in SeqUpTo(WindowEvents, MaxEvents), virtual_cursor_pos \in CursorPositions :
        tick(events, virtual_cursor_pos)

GuiRunGlfw == \E passthrough \in BOOLEAN : gui_run(passthrough)

\* the size the window reports when the event loop asks, src/lib.rs 152
ResizeLoop == \E latest_size \in FbSizes : resize_if_pending(latest_size)

\* the frames the host's gui produces
RenderLoop == \E meshes \in {<<>>, <<Quad>>} : run_prepare_render(meshes, GeomDelta)

NextGlfw ==
    \/ TickGlfw
    \/ ResizeLoop
    \/ take_raw_input
    \/ GuiRunGlfw
    \/ RenderLoop
    \/ run_render_egui
    \/ swap_buffers

SpecGlfw == InitGlfw /\ [][NextGlfw]_vars

\* the event loop with resize events: the cursor rests inside the window
LoopEvents ==
    {[type |-> "FramebufferSize", size |-> z] : z \in FbSizes} \cup {[type |-> "Char"]}

InitLoop ==
    /\ backend = "glow"
    /\ pc = "ready"
    /\ panic = "none"
    /\ frame = NoFrame
    /\ draw_calls = <<>>
    /\ gpu_log = <<>>
    /\ rpass = <<>>
    /\ vb_len = 0
    /\ ib_len = 0
    /\ vb = [size |-> 0]
    /\ ib = [size |-> 0]
    /\ managed_textures = EmptyMap
    /\ user_textures = EmptyMap
    /\ delete_textures = <<>>
    /\ gl_textures = EmptyMap
    /\ textures_to_delete = <<>>
    /\ clipped_primitives = <<>>
    /\ logical_screen_size = <<0, 0>>
    /\ screen_size_physical = <<0, 0>>
    /\ usable = {}
    /\ orphans = <<>>
    /\ eval = NoEval
    /\ gl_objects = GlCreatedObjects
    /\ WgpuBackend_new([surface_config |-> DefaultSurfaceConfig,
                        surface_formats_priority |-> <<>>], FALSE)
    /\ \E size \in FbSizes : GlfwBackend_new(size, <<10, 10>>, FALSE)

TickLoop == \E events \in SeqUpTo(LoopEvents, MaxEvents) : tick(events, <<10, 10>>)

NextLoop ==
    \/ TickLoop
    \/ ResizeLoop
    \/ take_raw_input
    \/ GuiRunGlfw
    \/ RenderLoop
    \/ run_render_egui
    \/ swap_buffers

SpecLoop == InitLoop /\ [][NextLoop]_vars

-----------------------------------------------------------------------------
(* Texture lifecycle claims, checked under SpecTex.                         *)

IsRunning == pc \in {"uploaded", "drawn"}

\* a log entry recorded for the i-th delta of the set list
OfDelta(e, i) == "i" \in DOMAIN e /\ e.i = i

\* number of draw calls the render pass completed
RECURSIVE CountOps(_, _)
CountOps(log, ops) ==
    IF log = <<>> THEN 0
    ELSE (IF Head(log).op \in ops THEN 1 ELSE 0) + CountOps(Tail(log), ops)

IsUsableMesh(dc) ==
    dc.kind = "Mesh" /\ dc.texture_id.tag = "Managed" /\ dc.texture_id.key \in usable

\* C1: in the wgpu painter every Mesh draw call whose Managed texture id was created by
\* a whole-image delta in this or an earlier frame, and was in no earlier frame's free
\* list since, finds its record at draw time: the record is in the map when the list
\* is returned, the draw binds it, and a "cannot find managed texture" panic is never
\* about such a draw call; a free of the id in the drawing frame itself changes nothing.
C1_DrawFindsTexture ==
    backend = "wgpu" =>
        /\ \A i \in DOMAIN draw_calls :
              IsUsableMesh(draw_calls[i]) =>
                  /\ draw_calls[i].texture_id.key \in DOMAIN managed_textures
                  /\ pc = "drawn" =>
                        \E j \in DOMAIN rpass :
                            rpass[j] = [op |-> "set_bind_group", index |-> 1,
                                        texture |-> draw_calls[i].texture_id]
        /\ (pc = "aborted" /\ panic = PanicNoManagedTexture) =>
              ~IsUsableMesh(draw_calls[CountOps(rpass, {"draw_indexed", "paint"}) + 1])

\* a frame that frees the id it draws, drawn
C1_Witness ==
    /\ backend = "wgpu"
    /\ pc = "drawn"
    /\ \E i \in DOMAIN draw_calls :
          /\ IsUsableMesh(draw_calls[i])
          /\ draw_calls[i].texture_id \in Range(frame.textures_delta.free)
          /\ \E j \in DOMAIN rpass : rpass[j].op = "draw_indexed"

\* C2: in the wgpu painter a call of upload_egui_data that returns removes exactly what
\* the previous frame's free list named: an id of this frame's free list that had a
\* record which was not already pending, or that this frame creates, is still in the
\* map afterwards, the pending
\* list afterwards is this frame's free list, and an id that was pending and gets no
\* whole-image delta in this frame has no record afterwards.
C2_DeferredDelete ==
    [][(backend = "wgpu" /\ pc = "ready" /\ pc' = "uploaded") =>
          /\ \A k \in ManagedKeysOf(frame'.textures_delta.free) :
                (\/ k \in DOMAIN managed_textures /\ k \notin ManagedKeysOf(delete_textures)
                 \/ k \in WholeCreated(frame'.textures_delta.set))
                    => k \in DOMAIN managed_textures'
          /\ delete_textures' = frame'.textures_delta.free
          /\ \A k \in ManagedKeysOf(delete_textures) :
                k \notin WholeCreated(frame'.textures_delta.set)
                    => k \notin DOMAIN managed_textures']_vars

\* a freed id that is pending and still has its record
C2_Witness ==
    /\ backend = "wgpu"
    /\ pc = "uploaded"
    /\ \E k \in ManagedKeysOf(delete_textures) :
          /\ k \in DOMAIN managed_textures
          /\ k \notin WholeCreated(frame.textures_delta.set)

\* the frame holds what the abort is about
AbortHasOtherCause ==
    \/ /\ panic = PanicFilterAssert
       /\ \E i \in DOMAIN frame.textures_delta.set :
             /\ frame.textures_delta.set[i].pos = None
             /\ frame.textures_delta.set[i].magnification
                    # frame.textures_delta.set[i].minification
    \/ /\ panic = PanicNoManagedTexture
       /\ \E i \in DOMAIN frame.meshes :
             /\ frame.meshes[i].kind = "Mesh"
             /\ frame.meshes[i].texture_id.key \notin DOMAIN managed_textures
    \/ /\ panic = PanicGlNoTexture
       /\ \E i \in DOMAIN frame.meshes :
             /\ frame.meshes[i].kind = "Mesh"
             /\ frame.meshes[i].texture_id.key \notin DOMAIN gl_textures
    \/ /\ panic = PanicGlDelete
       /\ \E t \in Range(frame.textures_delta.free) : t.key \notin DOMAIN gl_textures

LaterWhole(set, i) ==
    \E j \in DOMAIN set : j > i /\ set[j].id = set[i].id /\ set[j].pos = None

FindsRecord(set, i) ==
    LET d == set[i]
    IN  IF backend = "wgpu"
        THEN \/ /\ d.id.key \in DOMAIN managed_textures
                /\ d.id.key \notin ManagedKeysOf(delete_textures)
             \/ \E j \in DOMAIN set : j < i /\ set[j].id = d.id /\ set[j].pos = None
        ELSE \/ d.id.key \in DOMAIN gl_textures
             \/ \E j \in DOMAIN set : j < i /\ set[j].id = d.id

NoWholeFor(set, tex_id) == \A j \in DOMAIN set : set[j].id = tex_id => set[j].pos # None

\* C5: a delta with a position against a live texture writes the patch at the delta's
\* position with the patch's own width and height and records nothing else for it; a
\* record that only such deltas touch in a frame is the same record afterwards (wgpu:
\* the map entry; glow: sampler, width and height).
C5_PatchInPlace ==
    [][(pc = "ready" /\ pc' = "uploaded") =>
          \A i \in DOMAIN frame'.textures_delta.set :
              LET set == frame'.textures_delta.set
                  d == set[i]
                  write == IF backend = "wgpu" THEN "write_texture" ELSE "tex_sub_image_2d"
              IN  (IsSome(d.pos) /\ FindsRecord(set, i)) =>
                      /\ \E e \in Range(gpu_log') :
                            /\ OfDelta(e, i)
                            /\ e.op = write
                            /\ e.texture = d.id
                            /\ e.origin = Unwrap(d.pos)
                            /\ e.extent = <<d.width, d.height>>
                      /\ \A e \in Range(gpu_log') :
                            OfDelta(e, i) => e.op \in {write, "bind_texture"}
                      /\ NoWholeFor(set, d.id) =>
                            IF backend = "wgpu"
                            THEN /\ d.id.key \in DOMAIN managed_textures
                                 /\ d.id.key \in DOMAIN managed_textures'
                                 /\ managed_textures'[d.id.key] = managed_textures[d.id.key]
                            ELSE /\ d.id.key \in DOMAIN gl_textures'
                                 /\ d.id.key \in DOMAIN gl_textures
                                        => gl_textures'[d.id.key] = gl_textures[d.id.key]]_vars

\* a patch was written into a texture that has its record, in either painter
C5_Witness ==
    /\ pc = "uploaded"
    /\ orphans = <<>>
    /\ \E e \in Range(gpu_log) :
          /\ e.op \in {"write_texture", "tex_sub_image_2d"}
          /\ e.origin = <<5, 5>>
          /\ e.extent = <<10, 10>>

-----------------------------------------------------------------------------
(* Geometry claims, checked under SpecGeom.                                 *)

FrameScissor(p) ==
    scissor_from_clip_rect(p.clip_rect,
                           ScaleOf(frame.physical_framebuffer_size, frame.logical_screen_size),
                           frame.physical_framebuffer_size)

\* the frame took the path that copies meshes (painter.rs 643 did not return)
HasMeshData ==
    ~NoMeshData(TotalVertices(frame.meshes), TotalIndices(frame.meshes))

\* the primitives of the frame whose scissor is not empty, in input order
Emitted == SelectSeq(frame.meshes, LAMBDA p : IsSome(FrameScissor(p)))

\* what a draw call keeps of its primitive
KeptOfPrim(p) ==
    IF p.kind = "Mesh"
    THEN [kind |-> "Mesh", clip_rect |-> Unwrap(FrameScissor(p)), texture_id |-> p.texture_id]
    ELSE [kind |-> "Callback", clip_rect |-> Unwrap(FrameScissor(p)), callback |-> p.callback]

KeptOfCall(dc) ==
    IF dc.kind = "Mesh"
    THEN [kind |-> "Mesh", clip_rect |-> dc.clip_rect, texture_id |-> dc.texture_id]
    ELSE [kind |-> "Callback", clip_rect |-> dc.clip_rect, callback |-> dc.paint_callback]

\* C6: for a frame with mesh data the returned draw-call list is the input primitives
\* with a non-empty scissor, in input order, each with its kind, its scissor and, for a
\* Mesh, its texture id.
C6_ListIsFilteredInput ==
    (IsRunning /\ HasMeshData) =>
        /\ Len(draw_calls) = Len(Emitted)
        /\ \A i \in DOMAIN draw_calls : KeptOfCall(draw_calls[i]) = KeptOfPrim(Emitted[i])

\* a frame that mixes kept and dropped primitives of both kinds
C6_Witness ==
    /\ pc = "uploaded"
    /\ HasMeshData
    /\ Len(draw_calls) = 2
    /\ Len(frame.meshes) = 3
    /\ draw_calls[1].kind = "Callback"
    /\ draw_calls[2].kind = "Mesh"

RECURSIVE SumOver(_, _, _)
SumOver(prims, n, field) ==
    IF n = 0 THEN 0
    ELSE SumOver(prims, n - 1, field)
         + (IF prims[n].kind = "Mesh" THEN prims[n][field] ELSE 0)

\* C7: every Mesh draw call has base_vertex equal to the number of vertices, and
\* index_start equal to the number of indices, of the meshes emitted before it, and
\* index_end equal to index_start plus its own index count, all in elements; the frame
\* of one 4-vertex / 6-index quad covering 800x600 at scale 1 yields one draw call with
\* scissor [0, 0, 800, 600], base vertex 0 and index range [0, 6).
C7_Offsets ==
    IsRunning =>
        /\ \A i \in DOMAIN draw_calls :
              draw_calls[i].kind = "Mesh" =>
                  /\ i \in DOMAIN Emitted
                  /\ draw_calls[i].base_vertex = SumOver(Emitted, i - 1, "vertices")
                  /\ draw_calls[i].index_start = SumOver(Emitted, i - 1, "indices")
                  /\ draw_calls[i].index_end
                         = draw_calls[i].index_start + Emitted[i].indices
        /\ frame.meshes = <<Quad>> =>
              draw_calls = <<[kind |-> "Mesh", clip_rect |-> <<0, 0, 800, 600>>,
                              texture_id |-> Managed(0), base_vertex |-> 0,
                              index_start |-> 0, index_end |-> 6]>>

\* a Mesh draw call that follows another mesh, with non-zero offsets
C7_Witness ==
    /\ pc = "uploaded"
    /\ \E i \in DOMAIN draw_calls :
          /\ draw_calls[i].kind = "Mesh"
          /\ draw_calls[i].base_vertex = 4
          /\ draw_calls[i].index_start = 6
          /\ draw_calls[i].index_end = 9

EmittedMeshes == SelectSeq(Emitted, LAMBDA p : p.kind = "Mesh" /\ HasMeshData)

CopiesOf(op) == SelectSeq(gpu_log, LAMBDA e : e.op = op)

\* C8: a primitive with an empty scissor gives no draw call, and a Mesh with an empty
\* scissor is not copied and advances no offset: every draw call has a non-empty
\* scissor, there are never more draw calls than primitives with a non-empty scissor,
\* and the copies into the staging buffers are those of the emitted meshes, back to back.
C8_EmptyScissorSkipped ==
    IsRunning =>
        /\ Len(draw_calls) <= Len(Emitted)
        /\ \A i \in DOMAIN draw_calls :
              draw_calls[i].clip_rect[3] > 0 /\ draw_calls[i].clip_rect[4] > 0
        /\ Len(CopiesOf("copy_vertices")) = Len(EmittedMeshes)
        /\ Len(CopiesOf("copy_indices")) = Len(EmittedMeshes)
        /\ \A i \in DOMAIN EmittedMeshes :
              /\ CopiesOf("copy_vertices")[i].offset
                     = VertexSize * SumOver(EmittedMeshes, i - 1, "vertices")
              /\ CopiesOf("copy_vertices")[i].end
                     = VertexSize * SumOver(EmittedMeshes, i, "vertices")
              /\ CopiesOf("copy_indices")[i].offset
                     = IndexSize * SumOver(EmittedMeshes, i - 1, "indices")
              /\ CopiesOf("copy_indices")[i].end
                     = IndexSize * SumOver(EmittedMeshes, i, "indices")

\* a mesh with an empty scissor ahead of a mesh that is drawn
C8_Witness ==
    /\ pc = "uploaded"
    /\ Len(frame.meshes) >= 2
    /\ frame.meshes[1].kind = "Mesh"
    /\ ~IsSome(FrameScissor(frame.meshes[1]))
    /\ frame.meshes[2].kind = "Mesh"
    /\ Len(draw_calls) >= 1
    /\ draw_calls[1].kind = "Mesh"
    /\ draw_calls[1].base_vertex = 0

PreparedCallbacks ==
    LET prepared == CopiesOf("prepare")
    IN  [i \in DOMAIN prepared |-> prepared[i].callback]

EmittedCallbacks ==
    LET calls == SelectSeq(draw_calls, LAMBDA dc : dc.kind = "Callback")
    IN  [i \in DOMAIN calls |-> calls[i].paint_callback]

\* C9: the prepare callback runs exactly when a Callback draw call is emitted: the
\* callbacks prepared by an upload are the callbacks of its Callback draw calls, so a
\* Callback with an empty scissor is not prepared, with or without mesh data.
C9_PrepareIffEmitted == IsRunning => PreparedCallbacks = EmittedCallbacks

\* what the render pass records for one draw call
DrawnAs(dc, e) ==
    IF dc.kind = "Mesh"
    THEN e = [op |-> "draw_indexed", first |-> dc.index_start, last |-> dc.index_end,
              base_vertex |-> 0]
    ELSE e = [op |-> "paint", callback |-> dc.paint_callback,
              info |-> dc.paint_callback_info]

\* C10: draw_egui_with_renderpass sets one scissor per entry of the list and issues
\* one indexed draw per Mesh entry and one paint call per Callback entry, in list
\* order, whatever the list and the painter state.
C10_OneDrawPerEntry ==
    pc = "drawn" =>
        LET issued == SelectSeq(rpass, LAMBDA e : e.op \in {"draw_indexed", "paint"})
            scissors == SelectSeq(rpass, LAMBDA e : e.op = "set_scissor_rect")
        IN  /\ Len(issued) = Len(draw_calls)
            /\ Len(scissors) = Len(draw_calls)
            /\ \A i \in DOMAIN draw_calls :
                  /\ DrawnAs(draw_calls[i], issued[i])
                  /\ scissors[i].rect = draw_calls[i].clip_rect

-----------------------------------------------------------------------------
(* Buffer pool claims, checked under SpecGeom.                              *)

BufferCreated(log, buffer) ==
    \E i \in DOMAIN log : log[i].op = "create_buffer" /\ log[i].buffer = buffer

UploadReturns == backend = "wgpu" /\ pc = "ready" /\ pc' = "uploaded"

\* C11: the stored capacities vb_len and ib_len never decrease, and an upload whose
\* vertex total and index total both fit the stored capacities replaces neither buffer
\* and changes neither capacity.
C11_CapacityOnlyGrows ==
    [][/\ vb_len' >= vb_len
       /\ ib_len' >= ib_len
       /\ (/\ UploadReturns
           /\ TotalVertices(frame'.meshes) <= vb_len
           /\ TotalIndices(frame'.meshes) <= ib_len)
              => /\ UNCHANGED <<vb, ib, vb_len, ib_len>>
                 /\ ~BufferCreated(gpu_log', "vb")
                 /\ ~BufferCreated(gpu_log', "ib")]_vars

\* a frame with mesh data that is smaller than both capacities was uploaded
C11_Witness ==
    /\ pc = "uploaded"
    /\ HasMeshData
    /\ TotalVertices(frame.meshes) < vb_len
    /\ TotalIndices(frame.meshes) < ib_len
    /\ ~BufferCreated(gpu_log, "vb")
    /\ vb.size = vb_len * VertexSize

\* what C12 asks of one upload that returns
GrowsExactly ==
    LET vb_total == TotalVertices(frame'.meshes)
        ib_total == TotalIndices(frame'.meshes)
    IN  /\ vb_total > vb_len =>
              /\ vb_len' = vb_total
              /\ vb' = [size |-> vb_total * VertexSize]
              /\ \E i \in DOMAIN gpu_log' :
                    gpu_log'[i] = [op |-> "create_buffer", buffer |-> "vb",
                                   size |-> vb_total * VertexSize]
        /\ ib_total > ib_len =>
              /\ ib_len' = ib_total
              /\ ib' = [size |-> ib_total * IndexSize]
              /\ \E i \in DOMAIN gpu_log' :
                    gpu_log'[i] = [op |-> "create_buffer", buffer |-> "ib",
                                   size |-> ib_total * IndexSize]
        /\ vb_total <= vb_len => (vb' = vb /\ vb_len' = vb_len /\ ~BufferCreated(gpu_log', "vb"))
        /\ ib_total <= ib_len => (ib' = ib /\ ib_len' = ib_len /\ ~BufferCreated(gpu_log', "ib"))

\* C12 as stated: whenever a frame's vertex (index) total exceeds the stored capacity,
\* the vertex (index) buffer is replaced in that frame by one of exactly that total, the
\* capacity becomes that total, and the other buffer is left alone unless it is too
\* small itself.
C12_Original == [][UploadReturns => GrowsExactly]_vars

\* C12 as amended: the same, for a frame that has both vertices and indices.  A frame
\* whose vertex total or index total is zero returns before the capacities are looked
\* at and replaces nothing, even if its other total exceeds the capacity.
C12_GrowsToTotal ==
    [][UploadReturns =>
          IF TotalVertices(frame'.meshes) > 0 /\ TotalIndices(frame'.meshes) > 0
          THEN GrowsExactly
          ELSE /\ UNCHANGED <<vb, ib, vb_len, ib_len>>
               /\ ~BufferCreated(gpu_log', "vb")
               /\ ~BufferCreated(gpu_log', "ib")]_vars

\* the vertex buffer was replaced by a larger one while the index buffer was kept
C12_Witness ==
    /\ pc = "uploaded"
    /\ BufferCreated(gpu_log, "vb")
    /\ ~BufferCreated(gpu_log, "ib")
    /\ vb_len = TotalVertices(frame.meshes)
    /\ ib_len >= TotalIndices(frame.meshes)
    /\ ib_len > 0

\* the Callback primitives of the frame whose scissor is not empty, in input order
EmittedCallbackPrims == SelectSeq(Emitted, LAMBDA p : p.kind = "Callback")

BufferOps == {"create_buffer", "write_buffer_with", "copy_vertices", "copy_indices"}

\* C13: an upload of a frame whose mesh data is zero (no vertices or no indices) writes
\* no vertex or index data, replaces no buffer, leaves buffers and capacities as they
\* were, and returns only Callback entries, in input order.
C13_NoMeshDataNoWrites ==
    /\ []((/\ backend = "wgpu"
           /\ IsRunning
           /\ (TotalVertices(frame.meshes) = 0 \/ TotalIndices(frame.meshes) = 0))
             => /\ \A i \in DOMAIN gpu_log : gpu_log[i].op \notin BufferOps
                /\ Len(draw_calls) = Len(EmittedCallbackPrims)
                /\ \A i \in DOMAIN draw_calls :
                      /\ draw_calls[i].kind = "Callback"
                      /\ KeptOfCall(draw_calls[i]) = KeptOfPrim(EmittedCallbackPrims[i]))
    /\ [][(/\ UploadReturns
           /\ (TotalVertices(frame'.meshes) = 0 \/ TotalIndices(frame'.meshes) = 0))
             => UNCHANGED <<vb, ib, vb_len, ib_len>>]_vars

\* a painter that holds buffers was given a frame of callbacks and index-free vertices
C13_Witness ==
    /\ pc = "uploaded"
    /\ TotalVertices(frame.meshes) > 0
    /\ TotalIndices(frame.meshes) = 0
    /\ vb_len > 0
    /\ Len(draw_calls) = 2

\* the Mesh draw calls of the frame, in list order
MeshCalls == SelectSeq(draw_calls, LAMBDA dc : dc.kind = "Mesh")

\* C14 as stated: the base_vertex and the index_start of a Mesh draw call are strictly
\* greater than those of the Mesh draw call before it.
C14_Original ==
    IsRunning =>
        \A i \in DOMAIN MeshCalls :
            i > 1 => /\ MeshCalls[i].base_vertex > MeshCalls[i - 1].base_vertex
                     /\ MeshCalls[i].index_start > MeshCalls[i - 1].index_start

\* C14 as amended: the offsets of successive Mesh draw calls never decrease.  Each
\* starts where the Mesh draw call before it ends, so its base_vertex (index_start) is
\* strictly greater exactly when the mesh before it has a vertex (an index); a mesh
\* without indices gets an empty index range and the next one starts at the same
\* index.  No two Mesh draw calls of a frame share a vertex or an index.
C14_OffsetsAdvance ==
    IsRunning =>
        /\ Len(MeshCalls) = Len(EmittedMeshes)
        /\ \A i \in DOMAIN MeshCalls :
              i > 1 =>
                  /\ MeshCalls[i].base_vertex
                         = MeshCalls[i - 1].base_vertex + EmittedMeshes[i - 1].vertices
                  /\ MeshCalls[i].index_start = MeshCalls[i - 1].index_end
                  /\ MeshCalls[i].index_start >= MeshCalls[i - 1].index_start
                  /\ (MeshCalls[i].index_start > MeshCalls[i - 1].index_start)
                         <=> (EmittedMeshes[i - 1].indices > 0)
                  /\ (MeshCalls[i].base_vertex > MeshCalls[i - 1].base_vertex)
                         <=> (EmittedMeshes[i - 1].vertices > 0)
        /\ \A i, j \in DOMAIN MeshCalls :
              i < j =>
                  /\ MeshCalls[i].index_end <= MeshCalls[j].index_start
                  /\ MeshCalls[i].base_vertex + EmittedMeshes[i].vertices
                         <= MeshCalls[j].base_vertex

\* a mesh without indices was emitted and the next mesh starts at the same index
C14_Witness ==
    /\ pc = "uploaded"
    /\ \E i \in DOMAIN MeshCalls :
          /\ i > 1
          /\ MeshCalls[i - 1].index_start = MeshCalls[i - 1].index_end
          /\ MeshCalls[i].index_start = MeshCalls[i - 1].index_start
          /\ MeshCalls[i].index_end > MeshCalls[i].index_start
          /\ MeshCalls[i].base_vertex > MeshCalls[i - 1].base_vertex

-----------------------------------------------------------------------------
(* The free functions and set_textures applied to enumerated arguments.     *)

\* largest coordinate of the enumerated clip rectangles, in points
MaxCoord == 4

\* largest width and height of the enumerated small textures
MaxDim == 9

\* a coordinate far outside every framebuffer
Far == 300000000

Coords == (-1 .. MaxCoord) \cup {-Far, Far}

\* every rectangle over Coords, the inverted ones (max < min) included
SmallRects == {Rect(x0, y0, x1, y1) : x0 \in Coords, y0 \in Coords, x1 \in Coords, y1 \in Coords}

SmallFbSizes == {<<0, 0>>, <<3, 2>>, <<4, 4>>}

\* fully at negative coordinates
NegativeRect == Rect(-50, -40, -10, -5)

ScreenRects == {FullRect, PartRect, EmptyRect, OutsideRect, NegativeRect}

\* scale as numerator / denominator: 1, 2, 1/2 and 3/2
Scales == {<<1, 1>>, <<2, 1>>, <<1, 2>>, <<3, 2>>}

ScissorArgs ==
    ({[clip_rect |-> r, physical_framebuffer_size |-> fb] : r \in SmallRects, fb \in SmallFbSizes}
        \cup {[clip_rect |-> r, physical_framebuffer_size |-> FbSize] : r \in ScreenRects})
    \X Scales

\* widths and heights of the enumerated whole-image deltas
Dims == (1 .. MaxDim) \cup {15, 16, 17, 255, 256, 1023, 1024, 4096}

\* a painter without textures
NoTextures ==
    [managed |-> EmptyMap, user |-> EmptyMap, log |-> <<>>, mips |-> <<>>,
     orphans |-> <<>>, panic |-> "none"]

\* wgpu lib.rs 303-337 called
call_scissor_from_clip_rect ==
    /\ eval = NoEval
    /\ \E a \in ScissorArgs :
          eval' = [fn |-> "scissor_from_clip_rect",
                   clip_rect |-> a[1].clip_rect,
                   scale |-> a[2],
                   physical_framebuffer_size |-> a[1].physical_framebuffer_size,
                   result |-> scissor_from_clip_rect(a[1].clip_rect, a[2],
                                                     a[1].physical_framebuffer_size)]
    /\ UNCHANGED <<outer_vars, backend, pc, panic, frame, draw_calls, gpu_log, rpass, wgpu_vars,
                   glow_vars, usable, orphans>>

\* glow lib.rs 505-514 called
call_scissor_from_clip_rect_opengl ==
    /\ eval = NoEval
    /\ \E a \in ScissorArgs :
          eval' = [fn |-> "scissor_from_clip_rect_opengl",
                   clip_rect |-> a[1].clip_rect,
                   scale |-> a[2],
                   physical_framebuffer_size |-> a[1].physical_framebuffer_size,
                   result |-> scissor_from_clip_rect_opengl(a[1].clip_rect, a[2],
                                                            a[1].physical_framebuffer_size)]
    /\ UNCHANGED <<outer_vars, backend, pc, panic, frame, draw_calls, gpu_log, rpass, wgpu_vars,
                   glow_vars, usable, orphans>>

\* painter.rs 394-593 called with one whole-image delta on a painter without textures
\* sub-region updates of a live texture, inside its bounds: the whole image, an interior
\* block and a single texel
LivePatches(tex_id, width, height) ==
    {PatchDelta(tex_id, 0, 0, width, height),
     PatchDelta(tex_id, 1, 1, 2, 2),
     PatchDelta(tex_id, 0, 0, 1, 1)}

\* EguiPainter::set_textures, painter.rs 394-593, for a frame that updates a sub-region
\* of a texture an earlier frame created
call_set_textures_patch ==
    /\ eval = NoEval
    /\ \E tex_id \in {Managed(0), Managed(1), User(0)}, size \in {<<16, 8>>, <<4, 4>>} :
       \E patch \in LivePatches(tex_id, size[1], size[2]) :
          LET created == set_textures(NoTextures,
                                      <<WholeDelta(tex_id, size[1], size[2],
                                                   "Linear", "Linear")>>)
              live == [created EXCEPT !.log = <<>>, !.mips = <<>>]
          IN  eval' = [fn |-> "set_textures_patch", delta |-> patch,
                       before |-> live,
                       result |-> set_textures(live, <<patch>>)]
    /\ UNCHANGED <<outer_vars, backend, pc, panic, frame, draw_calls, gpu_log, rpass, wgpu_vars,
                   glow_vars, usable, orphans>>

call_set_textures ==
    /\ eval = NoEval
    /\ \E tex_id \in {Managed(0), Managed(1), User(0)}, width \in Dims, height \in Dims,
          filter \in {"Nearest", "Linear"} :
          LET delta == WholeDelta(tex_id, width, height, filter, filter)
          IN  eval' = [fn |-> "set_textures", delta |-> delta,
                       result |-> set_textures(NoTextures, <<delta>>)]
    /\ UNCHANGED <<outer_vars, backend, pc, panic, frame, draw_calls, gpu_log, rpass, wgpu_vars,
                   glow_vars, usable, orphans>>

\* the call returns to its caller
return_call ==
    /\ eval # NoEval
    /\ eval' = NoEval
    /\ UNCHANGED <<outer_vars, backend, pc, panic, frame, draw_calls, gpu_log, rpass, wgpu_vars,
                   glow_vars, usable, orphans>>

\* the format selection of SurfaceManager::reconfigure_surface, surface.rs 142-168
call_choose_format ==
    /\ eval = NoEval
    /\ \E priority \in PriorityLists, capabilities \in SurfaceCapabilities :
          eval' = [fn |-> "reconfigure_surface",
                   surface_formats_priority |-> priority,
                   supported_formats |-> capabilities.formats,
                   format |-> ChooseFormat(priority, capabilities.formats)]
    /\ UNCHANGED <<outer_vars, backend, pc, panic, frame, draw_calls, gpu_log, rpass, wgpu_vars,
                   glow_vars, usable, orphans>>

InitFn == backend = "wgpu" /\ InitPainters

NextFn ==
    \/ call_scissor_from_clip_rect
    \/ call_scissor_from_clip_rect_opengl
    \/ call_set_textures
    \/ call_set_textures_patch
    \/ call_choose_format
    \/ return_call

SpecFn == InitFn /\ [][NextFn]_vars

-----------------------------------------------------------------------------
(* Scissor claims, checked under SpecFn.  Framebuffer sizes fit an i32, as  *)
(* those of every surface do; products of scale and coordinate are exact.   *)

\* the top-left-origin result of the glow crate for the arguments of the call
TopLeft ==
    glow_scissor_from_clip_rect(eval.clip_rect, eval.scale, eval.physical_framebuffer_size)

\* C15: scissor_from_clip_rect_opengl returns None exactly when the top-left-origin
\* scissor_from_clip_rect does; otherwise it returns the same x, width and height and
\* y' = framebuffer height - (y + height), so y' + height = framebuffer height - y,
\* and the subtraction does not underflow.
C15_BottomLeftFlip ==
    eval.fn = "scissor_from_clip_rect_opengl" =>
        /\ IsSome(eval.result) <=> IsSome(TopLeft)
        /\ IsSome(eval.result) =>
              LET flipped == Unwrap(eval.result)
                  top == Unwrap(TopLeft)
                  fb_h == eval.physical_framebuffer_size[2]
              IN  /\ flipped[1] = top[1]
                  /\ flipped[3] = top[3]
                  /\ flipped[4] = top[4]
                  /\ top[2] + top[4] <= fb_h
                  /\ flipped[2] >= 0
                  /\ flipped[2] = fb_h - (top[2] + top[4])
                  /\ flipped[2] + flipped[4] = fb_h - top[2]

\* a rectangle away from both the top and the bottom edge was flipped
C15_Witness ==
    /\ eval.fn = "scissor_from_clip_rect_opengl"
    /\ IsSome(eval.result)
    /\ Unwrap(TopLeft)[2] > 0
    /\ Unwrap(eval.result)[2] > 0
    /\ Unwrap(eval.result)[2] # Unwrap(TopLeft)[2]

\* the scaled rectangle has no point inside the framebuffer: it ends at or before the
\* left or top edge, or starts at or after the right or bottom edge
FullyOutside(clip_rect, scale, fb) ==
    /\ clip_rect.min[1] <= clip_rect.max[1]
    /\ clip_rect.min[2] <= clip_rect.max[2]
    /\ \/ clip_rect.max[1] <= 0
       \/ clip_rect.max[2] <= 0
       \/ scale[1] * clip_rect.min[1] >= scale[2] * fb[1]
       \/ scale[1] * clip_rect.min[2] >= scale[2] * fb[2]

\* the same with the coordinates of the rectangle taken as they are given, in points
OutsideUnscaled(clip_rect, fb) == FullyOutside(clip_rect, <<1, 1>>, fb)

\* C16 as stated: scissor_from_clip_rect returns None for every clip rect whose min
\* equals its max and for every clip rect that lies outside the framebuffer, such as
\* (1000,1000)-(2000,2000) against 800x600, whatever the positive scale.
C16_Original ==
    eval.fn = "scissor_from_clip_rect" =>
        /\ eval.clip_rect.min = eval.clip_rect.max => eval.result = None
        /\ OutsideUnscaled(eval.clip_rect, eval.physical_framebuffer_size)
              => eval.result = None

\* C16 as amended: scissor_from_clip_rect returns None for every clip rect whose min
\* equals its max, at every positive scale, and for every clip rect that is fully
\* outside the framebuffer once it is multiplied by the scale; (1000,1000)-(2000,2000)
\* against 800x600 is None at the scales 1, 3/2 and 2, and a rectangle at negative
\* coordinates is None at every scale.
C16_EmptyOrOutsideIsNone ==
    eval.fn = "scissor_from_clip_rect" =>
        /\ eval.clip_rect.min = eval.clip_rect.max => eval.result = None
        /\ FullyOutside(eval.clip_rect, eval.scale, eval.physical_framebuffer_size)
              => eval.result = None
        /\ (eval.clip_rect = NegativeRect /\ eval.physical_framebuffer_size = FbSize)
              => eval.result = None
        /\ (/\ eval.clip_rect = OutsideRect
            /\ eval.physical_framebuffer_size = FbSize
            /\ eval.scale \in {<<1, 1>>, <<3, 2>>, <<2, 1>>}) => eval.result = None

\* a rectangle that is outside only after scaling: it starts inside 4x4 in points
C16_Witness ==
    /\ eval.fn = "scissor_from_clip_rect"
    /\ eval.clip_rect = Rect(2, 1, 4, 3)
    /\ eval.physical_framebuffer_size = <<4, 4>>
    /\ eval.scale = <<2, 1>>
    /\ eval.result = None

\* C17: whenever scissor_from_clip_rect returns Some([x, y, width, height]), width and
\* height are positive and the rectangle lies inside the framebuffer, for inverted
\* rectangles and negative coordinates too.
C17_ScissorInsideFramebuffer ==
    (eval.fn = "scissor_from_clip_rect" /\ IsSome(eval.result)) =>
        LET r == Unwrap(eval.result)
            fb == eval.physical_framebuffer_size
        IN  /\ r[1] >= 0
            /\ r[2] >= 0
            /\ r[3] > 0
            /\ r[4] > 0
            /\ r[1] + r[3] <= fb[1]
            /\ r[2] + r[4] <= fb[2]

\* a rectangle from a negative corner to far beyond the framebuffer was cut to it
C17_Witness ==
    /\ eval.fn = "scissor_from_clip_rect"
    /\ eval.clip_rect = Rect(-1, -Far, Far, MaxCoord)
    /\ eval.physical_framebuffer_size = <<4, 4>>
    /\ eval.scale = <<3, 2>>
    /\ eval.result = Some(<<0, 0, 4, 4>>)

-----------------------------------------------------------------------------
(* Sampler and mip level claims.                                            *)

\* the records of the Managed textures and the samplers of the painter in use
ManagedRecords == IF backend = "wgpu" THEN managed_textures ELSE gl_textures

SamplersInUse == IF backend = "wgpu" THEN WgpuSamplers ELSE GlSamplers

\* C18 (SpecTex): in every reachable state of either painter the record of Managed
\* texture 0 holds the font sampler, and that sampler clamps to the edge, whatever
\* filters the deltas of the texture asked for.
C18_FontSampler ==
    0 \in DOMAIN ManagedRecords =>
        /\ ManagedRecords[0].sampler = "font_sampler"
        /\ SamplersInUse[ManagedRecords[0].sampler].address_mode = "ClampToEdge"

\* the font texture was created by a delta that asks for nearest filtering, glow painter
C18_Witness ==
    /\ backend = "glow"
    /\ pc = "uploaded"
    /\ 0 \in DOMAIN gl_textures
    /\ \E i \in DOMAIN frame.textures_delta.set :
          frame.textures_delta.set[i] = WholeDelta(Managed(0), 16, 8, "Nearest", "Nearest")

\* floor(log2(m)) + 1 for m >= 1 is the number of binary digits of m
BinaryDigits(m) == CHOOSE n \in 1 .. 20 : 2 ^ (n - 1) <= m /\ m < 2 ^ n

CreatedTextures(log) == SelectSeq(log, LAMBDA e : e.op = "create_texture")

\* C19 (SpecFn): the wgpu painter creates the texture of a whole-image delta of size
\* w x h with floor(log2(max(w, h))) + 1 mip levels for every id other than Managed(0),
\* and with exactly 1 level for Managed(0); the record it keeps says the same.
C19_MipLevels ==
    eval.fn = "set_textures" =>
        LET delta == eval.delta
            created == CreatedTextures(eval.result.log)
            larger == IF delta.width >= delta.height THEN delta.width ELSE delta.height
            levels == IF delta.id = Managed(0) THEN 1 ELSE BinaryDigits(larger)
            record == Unwrap(TexLookup(eval.result, delta.id))
        IN  /\ Len(created) = 1
            /\ created[1].texture = delta.id
            /\ created[1].extent = <<delta.width, delta.height>>
            /\ created[1].mip_level_count = levels
            /\ IsSome(TexLookup(eval.result, delta.id))
            /\ record.mip_level_count = levels

\* a tall User texture whose height is one short of a power of two: 10 levels
C19_Witness ==
    /\ eval.fn = "set_textures"
    /\ eval.delta.id = User(0)
    /\ eval.delta.width = 5
    /\ eval.delta.height = 1023
    /\ CreatedTextures(eval.result.log)[1].mip_level_count = 10

-----------------------------------------------------------------------------
(* Contract violation claims, checked under SpecContract.                   *)

\* a Mesh draw call of the wgpu list whose texture id has no record in the map
UnknownTextureCall ==
    \E i \in DOMAIN draw_calls :
        /\ draw_calls[i].kind = "Mesh"
        /\ draw_calls[i].texture_id.key \notin DOMAIN managed_textures

\* the primitive passes the scissor test of the glow painter
GlVisible(p) ==
    IsSome(scissor_from_clip_rect_opengl(p.clip_rect,
                                         ScaleOf(screen_size_physical, logical_screen_size),
                                         screen_size_physical))

\* a Mesh primitive the glow painter draws whose texture id has no record in the map
UnknownTextureMesh ==
    \E i \in DOMAIN clipped_primitives :
        /\ clipped_primitives[i].kind = "Mesh"
        /\ GlVisible(clipped_primitives[i])
        /\ clipped_primitives[i].texture_id.key \notin DOMAIN gl_textures

\* Callback primitives of a frame whose payload is not a CallbackFn
BadCallbacks(fr) ==
    {i \in DOMAIN fr.meshes : /\ fr.meshes[i].kind = "Callback"
                              /\ ~fr.meshes[i].callback.is_callback_fn}

\* the primitive passes the scissor test of the wgpu painter
WgpuVisible(fr, i) ==
    IsSome(scissor_from_clip_rect(fr.meshes[i].clip_rect,
                                  ScaleOf(fr.physical_framebuffer_size, fr.logical_screen_size),
                                  fr.physical_framebuffer_size))

UploadEnds == backend = "wgpu" /\ pc = "ready" /\ pc' # "ready"

DrawEnds == backend = "wgpu" /\ pc = "uploaded" /\ pc' # "uploaded"

RenderEnds == backend = "glow" /\ pc = "uploaded" /\ pc' # "uploaded"

\* texture ids the render pass bound for its Mesh draws, in order
BoundTextures ==
    LET binds == SelectSeq(rpass, LAMBDA e : e.op = "set_bind_group" /\ e.index = 1)
    IN  [i \in DOMAIN binds |-> binds[i].texture]

\* texture ids of the Mesh entries of the draw list, in order
MeshTextures ==
    LET calls == SelectSeq(draw_calls, LAMBDA dc : dc.kind = "Mesh")
    IN  [i \in DOMAIN calls |-> calls[i].texture_id]

\* a pass that completed bound, for each Mesh draw call, the texture of that call
DrawsOwnTexture ==
    (backend = "wgpu" /\ pc = "drawn" /\ ~SkipsDraw(vb)) => BoundTextures = MeshTextures

\* C20, as stated: a Mesh draw call whose texture id has no record aborts the draw, and
\* a frame holding a Callback primitive whose payload is not a CallbackFn aborts the
\* painter (wgpu: in upload_egui_data, glow: in render_egui), whatever the primitive's
\* clip rectangle; no draw uses another texture.
C20_Original ==
    /\ []DrawsOwnTexture
    /\ [][/\ (DrawEnds /\ UnknownTextureCall) => pc' = "aborted"
          /\ (RenderEnds /\ UnknownTextureMesh) => pc' = "aborted"
          /\ (UploadEnds /\ BadCallbacks(frame') # {}) => pc' = "aborted"
          /\ (RenderEnds /\ BadCallbacks(frame) # {}) => pc' = "aborted"]_vars

\* C20: a Mesh draw call whose texture id has no record aborts the draw (wgpu:
\* "cannot find managed texture", glow: "managed texture cannot be found"), and a
\* Callback primitive whose payload is not a CallbackFn and whose scissor rectangle is
\* not empty aborts the painter (wgpu: the downcast in upload_egui_data, glow: todo! in
\* render_egui); a pass that completes bound each Mesh draw call's own texture.  In a
\* wgpu frame with mesh data a primitive with an empty scissor is skipped before its
\* payload is looked at: when every such Callback has an empty scissor, the upload does
\* not fail on the downcast.
C20_ContractViolationsAbort ==
    /\ []DrawsOwnTexture
    /\ [][/\ (DrawEnds /\ UnknownTextureCall) => (pc' = "aborted" /\ panic' = PanicNoManagedTexture)
          /\ (RenderEnds /\ UnknownTextureMesh) => pc' = "aborted"
          /\ (UploadEnds /\ \E i \in BadCallbacks(frame') : WgpuVisible(frame', i))
                => pc' = "aborted"
          /\ (RenderEnds /\ \E i \in BadCallbacks(frame) : GlVisible(clipped_primitives[i]))
                => pc' = "aborted"
          /\ (/\ UploadEnds
              /\ ~NoMeshData(TotalVertices(frame'.meshes), TotalIndices(frame'.meshes))
              /\ \A i \in BadCallbacks(frame') : ~WgpuVisible(frame', i))
                => panic' # PanicDowncastPrepare]_vars

\* the upload skipped a Callback whose payload is not a CallbackFn because its scissor
\* is empty, and the draw of the same frame then aborted on a Mesh draw call whose
\* texture has no record
C20_Witness ==
    /\ backend = "wgpu"
    /\ pc = "aborted"
    /\ panic = PanicNoManagedTexture
    /\ UnknownTextureCall
    /\ BadCallbacks(frame) # {}

-----------------------------------------------------------------------------
(* User texture claims, checked under SpecUser.                             *)

\* the map a texture id is looked up in
MapOf(tex_id) == IF tex_id.tag = "Managed" THEN managed_textures ELSE user_textures

\* every Mesh draw call of the list has a record under its id in the map of its tag
AllTexturesRegistered ==
    \A i \in DOMAIN draw_calls :
        draw_calls[i].kind = "Mesh" =>
            draw_calls[i].texture_id.key \in DOMAIN MapOf(draw_calls[i].texture_id)

UserTextureCall ==
    \E i \in DOMAIN draw_calls :
        draw_calls[i].kind = "Mesh" /\ draw_calls[i].texture_id.tag = "User"

\* C21: in the wgpu painter a Mesh draw call whose texture id is User(k), with a record
\* under k in user_textures, resolves to that record at draw time as a Managed id does:
\* a pass over a list whose texture ids all have their record completes.
C21_UserTextureResolves ==
    [][(DrawEnds /\ ~SkipsDraw(vb) /\ AllTexturesRegistered) => pc' = "drawn"]_vars

-----------------------------------------------------------------------------
(* Surface claims, checked under SpecSurface.                               *)

\* the step drops the surface view
ViewLost == IsSome(surface_view) /\ ~IsSome(surface_view')

SupportedPriorities(priority, supported_formats) ==
    SelectSeq(priority, LAMBDA f : f \in Range(supported_formats))

\* C23: when the surface is reconfigured the chosen format is the first entry of
\* surface_formats_priority that the surface supports; when the list is empty or none
\* of its entries is supported, it is the first format of the surface's supported list.
\* Checked under SpecFn.
C23_FormatByPriority ==
    eval.fn = "reconfigure_surface" =>
        LET wanted == SupportedPriorities(eval.surface_formats_priority,
                                          eval.supported_formats)
        IN  eval.format = IF wanted # <<>> THEN Some(Head(wanted))
                          ELSE Some(Head(eval.supported_formats))

\* C24: after any sequence of EguiPainter::new and on_resume calls, the painter's
\* surface_format field names the output format the current render pipeline was
\* created with.  Checked under SpecSurface.
C24_FormatNamesPipeline == surface_format = pipeline.format

-----------------------------------------------------------------------------
(* glow painter claims, checked under SpecGlow.                             *)

\* C25: Painter::destroy deletes every OpenGL object the glow painter created and still
\* holds: the three samplers of create_samplers, every texture of managed_textures, the
\* shader program, the vertex array and both buffers; afterwards managed_textures is
\* empty and no object of the painter is left.
C25_DestroyDeletesAll ==
    pc = "destroyed" => (gl_objects = {} /\ gl_textures = EmptyMap)

-----------------------------------------------------------------------------
(* Ordering claims of the texture update pass.                              *)

\* positions of the log at which the record of a Managed key is dropped / created
DropsOf(log, k) ==
    {j \in DOMAIN log : log[j].op = "drop_texture" /\ log[j].texture = Managed(k)}

CreatesOf(log, k) ==
    {j \in DOMAIN log : log[j].op = "create_texture" /\ log[j].texture = Managed(k)}

\* the last whole-image delta of the set list for a Managed key
LastWholeFor(set, k) ==
    LET at == {i \in DOMAIN set : set[i].id = Managed(k) /\ set[i].pos = None}
    IN  set[CHOOSE i \in at : \A j \in at : j <= i]

\* C26: in the wgpu painter the removal of the ids freed in frame N happens before frame
\* N+1's creates: when an id is pending from frame N and frame N+1 carries a whole-image
\* delta for it, every drop of the old record precedes every create, the record of the
\* delta is in the map when the call returns, and no call removes a record whose id is
\* not pending from the frame before.  Checked under SpecTex.
C26_RemovalBeforeCreates ==
    [][(backend = "wgpu" /\ pc = "ready" /\ pc' = "uploaded") =>
          /\ \A k \in ManagedKeysOf(delete_textures) \cap WholeCreated(frame'.textures_delta.set) :
                /\ \A d \in DropsOf(gpu_log', k), c \in CreatesOf(gpu_log', k) : d < c
                /\ CreatesOf(gpu_log', k) # {}
                /\ k \in DOMAIN managed_textures'
                /\ LET delta == LastWholeFor(frame'.textures_delta.set, k)
                   IN  /\ managed_textures'[k].sampler = SamplerFor(Managed(k), delta)
                       /\ managed_textures'[k].width = delta.width
          /\ \A k \in DOMAIN managed_textures \ ManagedKeysOf(delete_textures) :
                k \in DOMAIN managed_textures'
          /\ ManagedKeysOf(delete_textures') = ManagedKeysOf(frame'.textures_delta.free)]_vars

\* the record freed by the previous frame was dropped and a new one created for the same
\* id, which the map holds
C26_Witness ==
    /\ backend = "wgpu"
    /\ pc = "uploaded"
    /\ \E k \in DOMAIN managed_textures :
          /\ DropsOf(gpu_log, k) # {}
          /\ CreatesOf(gpu_log, k) # {}
          /\ Managed(k) \notin Range(delete_textures)

MipPassesAt(log) == {j \in DOMAIN log : log[j].op = "mip_pass"}

UploadsAt(log) == {j \in DOMAIN log : log[j].op \in {"create_texture", "write_texture"}}

\* C27: in the wgpu painter the mipmap passes of a frame are recorded only after every
\* delta of the set list has been applied, and for each texture the passes run for
\* target levels 1, 2, ... in ascending order up to its last level, the pass that
\* writes level N sampling level N-1.  Checked under SpecUser.
C27_MipmapsAfterUploads ==
    (backend = "wgpu" /\ pc = "uploaded") =>
        /\ \A m \in MipPassesAt(gpu_log), u \in UploadsAt(gpu_log) : u < m
        /\ \A m \in MipPassesAt(gpu_log) :
              /\ gpu_log[m].source = gpu_log[m].target - 1
              /\ gpu_log[m].target >= 1
              /\ gpu_log[m].target > 1 =>
                    /\ m - 1 \in MipPassesAt(gpu_log)
                    /\ gpu_log[m - 1].texture = gpu_log[m].texture
                    /\ gpu_log[m - 1].target = gpu_log[m].target - 1
        /\ \A u \in DOMAIN gpu_log :
              gpu_log[u].op = "create_texture" =>
                  \A level \in 1 .. gpu_log[u].mip_level_count - 1 :
                      \E m \in MipPassesAt(gpu_log) :
                          /\ gpu_log[m].texture = gpu_log[u].texture
                          /\ gpu_log[m].target = level

\* two textures of one frame got their passes, the second one's create lying before the
\* first one's passes
C27_Witness ==
    /\ backend = "wgpu"
    /\ pc = "uploaded"
    /\ \E m \in MipPassesAt(gpu_log), n \in MipPassesAt(gpu_log) :
          /\ m < n
          /\ gpu_log[m].texture # gpu_log[n].texture
          /\ gpu_log[m].target > 1
          /\ \E u \in UploadsAt(gpu_log) : gpu_log[u].texture = gpu_log[n].texture

\* positions of the glow log at which a texture is deleted / a mesh is drawn
GlDeletesAt(log) == {j \in DOMAIN log : log[j].op = "delete_texture"}

GlDrawsAt(log) == {j \in DOMAIN log : log[j].op = "draw_elements"}

\* C28: in the glow painter a texture id of a frame's free list stays in
\* managed_textures for every draw call of that frame: prepare_render removes no record
\* and stores the free list, every delete_texture of render_egui comes after its last
\* draw_elements, and when render_egui returns each freed id is deleted, has no record
\* and the pending-delete list is empty.  Checked under SpecGlow.
C28_DeleteAfterDraws ==
    /\ []((backend = "glow" /\ pc = "uploaded") =>
              textures_to_delete = frame.textures_delta.free)
    /\ []((backend = "glow" /\ pc = "drawn") =>
              /\ textures_to_delete = <<>>
              /\ \A d \in GlDeletesAt(rpass), e \in GlDrawsAt(rpass) : e < d
              /\ \A k \in ManagedKeysOf(frame.textures_delta.free) :
                    /\ k \notin DOMAIN gl_textures
                    /\ \E d \in GlDeletesAt(rpass) : rpass[d].texture = Managed(k))
    /\ [][(backend = "glow" /\ pc = "ready" /\ pc' = "uploaded") =>
              DOMAIN gl_textures \subseteq DOMAIN gl_textures']_vars

\* a frame drew with a texture it also freed: the draw bound it, the delete followed
C28_Witness ==
    /\ backend = "glow"
    /\ pc = "drawn"
    /\ \E k \in ManagedKeysOf(frame.textures_delta.free) :
          /\ \E b \in DOMAIN rpass, d \in GlDeletesAt(rpass) :
                /\ rpass[b] = [op |-> "bind_texture", texture |-> Managed(k)]
                /\ rpass[d].texture = Managed(k)
                /\ b < d
          /\ GlDrawsAt(rpass) # {}

\* C29: in the glow painter, after a whole-image delta for a texture id other than 0 the
\* record's sampler is the one of the filter that delta asks for (nearest or linear),
\* also when the id already had a record created with another filter.  Checked under
\* SpecGlow.
C29_SamplerFollowsDelta ==
    (backend = "glow" /\ pc = "uploaded") =>
        \A k \in WholeCreated(frame.textures_delta.set) \ {0} :
            gl_textures[k].sampler = GlSamplerOf(LastWholeFor(frame.textures_delta.set, k))

-----------------------------------------------------------------------------
(* C30 *)

\* the number of PointerGone events in a list of egui events
CountGone(events) == Cardinality({i \in DOMAIN events : events[i].type = "PointerGone"})

\* a tick of the event loop has run
TickEnds == loop_pc = "poll" /\ loop_pc' = "ticked"

\* the tick found the cursor outside the window after the backend had seen it inside at
\* the tick before
CursorLeaves ==
    /\ WindowBoundsContain(window_size_logical, cursor_pos)
    /\ cursor_inside_bounds
    /\ ~WindowBoundsContain(window_size_logical', cursor_pos')

\* the cursor was outside the window at the tick before and still is
CursorStaysOutside ==
    /\ ~WindowBoundsContain(window_size_logical, cursor_pos)
    /\ ~cursor_inside_bounds
    /\ ~WindowBoundsContain(window_size_logical', cursor_pos')

\* the window events of the tick report neither a cursor position nor the cursor entering
NoCursorArrival ==
    \A i \in DOMAIN frame_events' :
        /\ frame_events'[i].type # "CursorPos"
        /\ frame_events'[i] # [type |-> "CursorEnter", entered |-> TRUE]

\* C30: while the window is mouse-passthrough, a tick at which the cursor has gone from
\* inside to outside the window bounds pushes exactly one PointerGone into the raw input,
\* also when the window events of that tick hold a CursorEnter(false), and a tick at which
\* the cursor was and stays outside pushes none
C30_OnePointerGonePerDeparture ==
    [][(TickEnds /\ mouse_passthrough /\ NoCursorArrival) =>
         LET gone == CountGone(raw_input'.events) - CountGone(raw_input.events)
         IN  /\ CursorLeaves => gone = 1
             /\ CursorStaysOutside => gone = 0]_vars

-----------------------------------------------------------------------------
(* C31 *)

\* the window events of the tick hold a FramebufferSize event
ResizeReported ==
    \E i \in DOMAIN frame_events' : frame_events'[i].type = "FramebufferSize"

\* the event loop is past its resize step: the frame of this iteration is being built
\* or rendered
FrameInProgress == loop_pc \in {"input", "gui", "render"}

\* C31: a tick that processes a FramebufferSize event sets resized_event_pending; the
\* step of the event loop after a tick with the flag set hands a framebuffer size to the
\* graphics backend and clears the flag; and from the first iteration on, while the frame
\* of an iteration is built and rendered the flag is clear and the painter has a size
C31_ResizeBeforeRender ==
    /\ [](FrameInProgress =>
            (~resized_event_pending /\ screen_size_physical \in FbSizes))
    /\ [][(TickEnds /\ ResizeReported) => resized_event_pending']_vars
    /\ [][(loop_pc = "ticked" /\ resized_event_pending) =>
            (/\ loop_pc' = "input"
             /\ ~resized_event_pending'
             /\ screen_size_physical' \in FbSizes)]_vars

\* a frame is being rendered in an iteration whose tick processed a FramebufferSize event
C31_Witness ==
    /\ loop_pc = "render"
    /\ pc = "uploaded"
    /\ \E i \in DOMAIN frame_events : frame_events[i].type = "FramebufferSize"
    /\ screen_size_physical = <<1024, 768>>
    /\ ~resized_event_pending

-----------------------------------------------------------------------------
(* C32 *)

\* C32: once WgpuBackend::new has returned for a window, the surface is configured and
\* the width and height of surface_config are those of the window's framebuffer
C32_NewConfiguresSurface ==
    (call = "new" /\ IsSome(surface)) =>
        /\ Unwrap(surface).configured
        /\ <<surface_config.width, surface_config.height>> \in FbSizes

-----------------------------------------------------------------------------
(* C33 *)

\* C33: no upload of the wgpu painter fails on a slice range, and in every frame that
\* reached the buffer copy each mesh's vertex bytes go to [offset, offset + 20 x count)
\* and its index bytes to [offset, offset + 4 x count), inside the 20 x vb_len and
\* 4 x ib_len bytes that are mapped and inside the buffers; every Mesh draw call has
\* index_end <= ib_len and base_vertex plus its vertex count <= vb_len
C33_CopiesWithinBuffers ==
    /\ panic # PanicSliceRange
    /\ (backend = "wgpu" /\ IsRunning) =>
          /\ \A i \in DOMAIN gpu_log :
                /\ gpu_log[i].op = "copy_vertices" =>
                      /\ 0 <= gpu_log[i].offset
                      /\ gpu_log[i].end = gpu_log[i].offset + VertexSize * gpu_log[i].vertices
                      /\ gpu_log[i].end <= VertexSize * vb_len
                      /\ gpu_log[i].end <= vb.size
                /\ gpu_log[i].op = "copy_indices" =>
                      /\ 0 <= gpu_log[i].offset
                      /\ gpu_log[i].end = gpu_log[i].offset + IndexSize * gpu_log[i].indices
                      /\ gpu_log[i].end <= IndexSize * ib_len
                      /\ gpu_log[i].end <= ib.size
          /\ \A i \in DOMAIN MeshCalls :
                /\ MeshCalls[i].index_start <= MeshCalls[i].index_end
                /\ MeshCalls[i].index_end <= ib_len
                /\ MeshCalls[i].base_vertex + EmittedMeshes[i].vertices <= vb_len

\* two meshes were copied into buffers an earlier, larger frame had grown
C33_Witness ==
    /\ backend = "wgpu"
    /\ pc = "uploaded"
    /\ Len(MeshCalls) >= 2
    /\ vb_len > TotalVertices(frame.meshes)
    /\ ib_len > TotalIndices(frame.meshes)
    /\ \E i \in DOMAIN gpu_log : gpu_log[i].op = "copy_vertices" /\ gpu_log[i].offset > 0

-----------------------------------------------------------------------------
(* C34 *)

\* the levels of a texture that a mipmap pass of the frame wrote
RegeneratedLevels(log, tex_id) ==
    {log[m].target : m \in {j \in DOMAIN log : log[j].op = "mip_pass"
                                              /\ log[j].texture = tex_id}}

\* C34: in the wgpu painter, a frame that updates a sub-region of a live texture other
\* than Managed(0) writes the sub-region and regenerates every mip level of the texture
\* from 1 up to its last level
C34_PatchRegeneratesAllLevels ==
    (eval.fn = "set_textures_patch" /\ eval.delta.id # Managed(0)) =>
        LET record == Unwrap(TexLookup(eval.before, eval.delta.id))
        IN  /\ \E j \in DOMAIN eval.result.log :
                  /\ eval.result.log[j].op = "write_texture"
                  /\ eval.result.log[j].texture = eval.delta.id
            /\ \A level \in 1 .. record.mip_level_count - 1 :
                  level \in RegeneratedLevels(eval.result.log, eval.delta.id)

-----------------------------------------------------------------------------
(* C35 *)

\* a whole-image delta whose magnification and minification filters differ
UnequalFilters(delta) == delta.pos = None /\ delta.magnification # delta.minification

\* an upload of the wgpu painter ends, by returning or by a panic
UploadEnds35 == backend = "wgpu" /\ pc = "ready" /\ pc' \in {"uploaded", "aborted"}

\* C35: in the wgpu painter an upload whose set list holds a whole-image delta with
\* unequal filters aborts with the filter assertion, and the texture maps are then what
\* the deltas before the first such delta left: no record was inserted for its id, and a
\* record the id had before the frame and that was not due for removal is still the
\* same; an upload whose whole-image deltas all have equal filters does not trip the
\* assertion
C35_AssertBeforeInsert ==
    [][UploadEnds35 =>
        LET set == frame'.textures_delta.set
            bad == {i \in DOMAIN set : UnequalFilters(set[i])}
        IN  IF bad = {}
            THEN panic' # PanicFilterAssert
            ELSE LET f == CHOOSE i \in bad : \A j \in bad : i <= j
                     gone == TexturesToRemoveNow(delete_textures, frame'.textures_delta.free)
                     prefix == set_textures(
                                  [managed |-> RemoveTextures(managed_textures, gone, "Managed"),
                                   user |-> RemoveTextures(user_textures, gone, "User"),
                                   log |-> <<>>, mips |-> <<>>, orphans |-> <<>>,
                                   panic |-> "none"],
                                  SubSeq(set, 1, f - 1))
                     k == set[f].id.key
                 IN  /\ pc' = "aborted"
                     /\ panic' = PanicFilterAssert
                     /\ managed_textures' = prefix.managed
                     /\ user_textures' = prefix.user
                     /\ (\A j \in 1 .. f - 1 : set[j].id # set[f].id) =>
                           IF k \in DOMAIN managed_textures
                              /\ k \notin ManagedKeysOf(delete_textures)
                           THEN /\ k \in DOMAIN managed_textures'
                                /\ managed_textures'[k] = managed_textures[k]
                           ELSE k \notin DOMAIN managed_textures']_vars

\* the upload aborted on the filter assertion and the id of the delta still has the record
\* an earlier frame created for it
C35_Witness ==
    /\ backend = "wgpu"
    /\ pc = "aborted"
    /\ panic = PanicFilterAssert
    /\ \E i \in DOMAIN frame.textures_delta.set :
          /\ UnequalFilters(frame.textures_delta.set[i])
          /\ frame.textures_delta.set[i].id.key \in DOMAIN managed_textures

-----------------------------------------------------------------------------
(* C36 *)

\* C36: in every state the WgpuBackend reaches through new, resume, prepare_frame,
\* render_egui, present, resize_framebuffer and suspend, the surface view is present
\* exactly when the acquired surface image is, and when present has returned both are
\* absent and command_encoders is empty
C36_ViewIffImage ==
    /\ IsSome(surface_view) <=> IsSome(surface_current_image)
    /\ call = "present" =>
          /\ surface_view = None
          /\ surface_current_image = None
          /\ command_encoders = <<>>

\* present has returned on a backend that holds a configured surface
C36_Witness ==
    /\ call = "present"
    /\ pc = "ready"
    /\ IsSome(surface)
    /\ Unwrap(surface).configured
    /\ surface_view = None
    /\ command_encoders = <<>>

-----------------------------------------------------------------------------
(* C37 *)

\* C37: over frames of Managed-texture deltas in which every sub-region delta targets a
\* live id and every freed id is live, the wgpu painter and the glow painter hold the same
\* set of live Managed ids when the draw calls of a frame are issued
C37_SameLiveSets ==
    (backend = "both" /\ pc = "uploaded") => DOMAIN managed_textures = DOMAIN gl_textures

\* the draws of a frame are due while the wgpu painter still has a removal of the frame
\* before behind it and one of this frame ahead: the glow painter dropped the first at the
\* end of the frame before
C37_Witness ==
    /\ backend = "both"
    /\ pc = "uploaded"
    /\ DOMAIN managed_textures = {0, 1}
    /\ DOMAIN gl_textures = {0, 1}
    /\ ManagedKeysOf(delete_textures) = {1}
    /\ \E i \in DOMAIN gpu_log :
          gpu_log[i].op = "drop_texture" /\ gpu_log[i].texture = Managed(1)

====
